---- MODULE Spec2Model ----
(***************************************************************************)
(* Model of the biosignal analytics engine of                              *)
(* notebooks/eeg_processing_utils.py.                                      *)
(*                                                                         *)
(* The engine is a set of pure batch functions.  Each function family is   *)
(* checked under its own specification: Init draws the function's inputs   *)
(* from bounded sets and one action per function applies it.               *)
(*                                                                         *)
(*   SpecBands     band_powers                                             *)
(*   SpecTimebase  channel_timebase                                        *)
(*   SpecAssemble  load_label_timeseries (with find_discontinuities)       *)
(*   SpecSpectral  compute_band_power_timeseries_for_label and the gap     *)
(*                 segmentation of plot_spectrograms_per_label             *)
(*                                                                         *)
(*   SpecRate      the sampling rate and timebase load_label_timeseries     *)
(*                 resolves for one channel of one export                  *)
(*   SpecArtifact  compute_artifact_metrics                                 *)
(*   SpecPpg       find_ppg_peaks, one loop iteration per step              *)
(*   SpecPulse     compute_ppg_hr and build_ppg_cardiogram                  *)
(*   SpecSpo2      spo2_ratio_of_ratios (ppg_utils.py)                      *)
(*   SpecSweep     compute_artifact_df and plot_band_power_diagrams, the    *)
(*                 sweeps over the channels                                 *)
(*   SpecMapping   infer_ppg_mapping                                        *)
(*   SpecRows      compute_band_power_timeseries, called on an array        *)
(*   SpecCombined  compute_band_power_timeseries_combined, from the        *)
(*                 band-power tables of its labels on                      *)
(*                                                                         *)
(* Spectra.  The FFT is not modelled: of a spectrogram the model keeps the *)
(* sample windows it is computed over.  NPERSEG is 4 samples here where    *)
(* the program has 1024, so that a series of a few rows holds several      *)
(* windows; NOVERLAP stays NPERSEG \div 2.  The t_sec of a band-power row   *)
(* is carried in samples (t_sec * fs), the band powers of a window are     *)
(* inputs drawn from RowPowers.  The rate of a band-power table is carried *)
(* in quarters of a micro-hertz, so that the 1e-6 tolerance is 4 steps.    *)
(*                                                                         *)
(* Time.  A pandas Timestamp or Timedelta is an integer count of clock     *)
(* ticks; TicksPerSec ticks make one second.  pandas counts nanoseconds;   *)
(* the model counts milliseconds so that a session of some seconds stays   *)
(* inside TLC's integers.  A conversion from float seconds rounds to the   *)
(* nearest tick, as pandas rounds to the nearest nanosecond.  Rounding     *)
(* errors of the float arithmetic itself are not modelled.                 *)
(*                                                                         *)
(* Absent values.  None and NaT are the empty tuple, a present value v is  *)
(* the 1-tuple <<v>>.                                                      *)
(*                                                                         *)
(* Units.  Frequencies are integers counting half Hertz (0.5 Hz = 1), so   *)
(* every band edge of BANDS is an integer.  np.trapezoid is carried times  *)
(* four (twice for the half-Hertz unit, twice for the /2 of the rule), so  *)
(* absolute powers are integers; a relative power is the exact fraction    *)
(* [num, den] the division produces.                                       *)
(*                                                                         *)
(* SpO2.  The FFT filters of spo2_ratio_of_ratios are not computed: the    *)
(* DC mean and the AC amplitude of a window are drawn, 0 where the window  *)
(* forces it.  An AC amplitude of 1 is 1/200 of a DC mean of 200, so the   *)
(* minimum perfusion index 0.005 is the fraction 1/200.  A quotient is the *)
(* exact fraction; a fraction of denominator 0 stands for inf and nan.     *)
(***************************************************************************)
EXTENDS Integers, Sequences, FiniteSets, TLC

VARIABLES
    bp_pc,      \* band_powers: "call" before the call, "done" after it
    freqs,      \* band_powers argument: frequency of every bin, ascending
    psd,        \* band_powers argument: PSD of every bin
    bp_mask,    \* band_powers local: band key -> set of bin indices of band_mask
    bp_totals,  \* band_powers result: band key -> [absolute, relative]
    tb_pc,          \* channel_timebase: "call" before the call, "done" after it
    channel,        \* channel_timebase argument: [label, samples, timestamps, samplingRateHz]
    capture_start,  \* channel_timebase argument: None or <<Timestamp>>
    sampling_rate,  \* channel_timebase argument: None or <<rate in Hz>>
    tbase,          \* channel_timebase result: None or <<Series of NaT / <<Timestamp>> >>
    asm_pc,           \* load_label_timeseries: "call" before the call, "done" after it
    exports,          \* load_label_timeseries argument: the loaded exports
    label,            \* load_label_timeseries argument: the channel label
    series,           \* load_label_timeseries result: rows of the TimeSeries table
    discontinuities,  \* load_label_timeseries local: rows of find_discontinuities
    sp_pc,          \* "call" before a spectral function runs, then its name
    sp_result,      \* compute_band_power_timeseries_for_label: "ok" or the error raised
    spec_windows,   \* the sample windows [start, stop) handed to signal.spectrogram
    segments,       \* plot_spectrograms_per_label local: the segments [start, stop) of df
    cb_pc,          \* compute_band_power_timeseries_combined: "computed" after its loop
                    \* over the labels, "done" after it returned or raised
    bp_list,        \* compute_band_power_timeseries_combined local: the table of every label
    fs_values,      \* compute_band_power_timeseries_combined local: the rate of every label
    combined,       \* compute_band_power_timeseries_combined result: [error, rows, fs, reported]
    rate_pc,        \* load_label_timeseries, one channel: "call" or "done"
    rate_export,    \* load_label_timeseries local: export
    rate_ch,        \* load_label_timeseries local: ch
    rate_hz,        \* load_label_timeseries local: rate (None before it is resolved)
    rate_tbase,     \* load_label_timeseries local: tbase
    art_pc,         \* compute_artifact_metrics: "call" or "done"
    art_args,       \* compute_artifact_metrics arguments: samples, fs, window_sec,
                    \* step_sec (half seconds), the two thresholds
    art_rows,       \* compute_artifact_metrics result: the rows of the table
    ppg_pc,         \* find_ppg_peaks: "loop" or "done"
    ppg_args,       \* find_ppg_peaks arguments: samples, sample_rate_hz,
                    \* min_spacing_sec (tenths of a second)
    ppg_i,          \* find_ppg_peaks local: i
    peaks,          \* find_ppg_peaks local: peaks (sample indices from 0)
    last_peak,      \* find_ppg_peaks local: last_peak
    pulse_pc,       \* compute_ppg_hr / build_ppg_cardiogram: "call", then "hr" or "cardiogram"
    pulse_args,     \* their arguments: samples, sample_rate_hz, beats
    pulse_filtered, \* their local: filtered
    pulse_peaks,    \* their local: peaks
    hr,             \* compute_ppg_hr result: None or <<bpm>>
    cardiogram,     \* build_ppg_cardiogram result: None or <<waveform>>
    spo2_pc,        \* spo2_ratio_of_ratios: "call" or "done"
    spo2_args,      \* spo2_ratio_of_ratios arguments: ir, red, sample_rate_hz
    spo2_locals,    \* spo2_ratio_of_ratios locals: ir_dc_mean, red_dc_mean,
                    \* ir_ac_amp, red_ac_amp (None where the call never set it)
    spo2_result,    \* spo2_ratio_of_ratios result: the returned dict
    sweep_pc,       \* a sweep over the channels: "call", then the function that ran
    sweep_labels,   \* get_channel_labels(diag_df): the labels, sorted
    sweep_samples,  \* label -> the number of rows load_label_timeseries finds for it
    sweep_done,     \* the labels (artifact sweep) or group names (band-power
                    \* sweep) a result was produced for, in order
    sweep_error,    \* "" or the exception that ended the sweep
    map_pc,         \* infer_ppg_mapping: "call" or "done"
    map_labels,     \* infer_ppg_mapping argument: labels, each a sequence of characters
    ppg_mapping,    \* infer_ppg_mapping result: [ambient, infrared, red], None or <<label>>
    bpt_pc,         \* compute_band_power_timeseries: "call" or "done"
    bpt_args,       \* compute_band_power_timeseries arguments: samples, step_samples,
                    \* reject_artifacts, the two thresholds
    bpt_ratios,     \* the line-noise ratio of the window of every loop iteration
    bpt_rows        \* compute_band_power_timeseries result: the rows of the table

varsBands == <<bp_pc, freqs, psd, bp_mask, bp_totals>>
varsTimebase == <<tb_pc, channel, capture_start, sampling_rate, tbase>>
varsAssemble == <<asm_pc, exports, label, series, discontinuities>>
varsSpectral == <<sp_pc, sp_result, spec_windows, segments>>
varsCombined == <<cb_pc, bp_list, fs_values, combined>>
varsRate == <<rate_pc, rate_export, rate_ch, rate_hz, rate_tbase>>
varsArtifact == <<art_pc, art_args, art_rows>>
varsPpg == <<ppg_pc, ppg_args, ppg_i, peaks, last_peak>>
varsPulse == <<pulse_pc, pulse_args, pulse_filtered, pulse_peaks, hr, cardiogram>>
varsSpo2 == <<spo2_pc, spo2_args, spo2_locals, spo2_result>>
varsSweep == <<sweep_pc, sweep_labels, sweep_samples, sweep_done, sweep_error>>
varsMapping == <<map_pc, map_labels, ppg_mapping>>
varsRows == <<bpt_pc, bpt_args, bpt_ratios, bpt_rows>>
vars == <<varsBands, varsTimebase, varsAssemble, varsSpectral, varsCombined, varsRate,
          varsArtifact, varsPpg,
          varsPulse,
          varsSpo2,
          varsSweep,
          varsMapping,
          varsRows>>

\* ------------------------------------------------------------------ bounds
\* longest frequency grid handed to band_powers
MaxBins == 4
\* largest PSD value of a bin
MaxPsd == 1

\* most samples of one channel
MaxSamples == 4
\* most samples of one channel of the exports handed to load_label_timeseries
MaxChannelSamples == 3
\* most rows of a series handed to the spectral functions
MaxSeriesLen == 6
\* most windows (rows) of the band-power table of one label
MaxWindows == 2
\* most samples handed to compute_artifact_metrics
MaxArtifactSamples == 9
\* most samples handed to find_ppg_peaks
MaxPpgSamples == 6
\* most samples handed to compute_ppg_hr and build_ppg_cardiogram
MaxPulseSamples == 7
\* most samples of a window handed to spo2_ratio_of_ratios
MaxSpo2Samples == 4
\* most rows of the series of a channel of a sweep
MaxSweepSamples == 4
\* most channel labels handed to infer_ppg_mapping
MaxPpgChannels == 3
\* most samples handed to compute_band_power_timeseries
MaxBandSamples == 9

\* ------------------------------------------------------------- arithmetic
RECURSIVE SumSeq(_)
SumSeq(s) == IF s = <<>> THEN 0 ELSE Head(s) + SumSeq(Tail(s))

RECURSIVE GCD(_, _)
GCD(a, b) == IF b = 0 THEN a ELSE GCD(b, a % b)

\* exact fractions [num, den], den > 0, kept in lowest terms by Rat
Rat(n, d) ==
    LET g == GCD(IF n < 0 THEN -n ELSE n, d)
    IN  [num |-> n \div g, den |-> d \div g]

RatDiv(a, b) == Rat(a.num * b.den, a.den * b.num)

RatAdd(a, b) == Rat(a.num * b.den + b.num * a.den, a.den * b.den)

RECURSIVE RatSum(_)
RatSum(s) == IF s = <<>> THEN [num |-> 0, den |-> 1] ELSE RatAdd(Head(s), RatSum(Tail(s)))

\* s in ascending order
RECURSIVE SortAsc(_)
SortAsc(s) ==
    IF s = <<>> THEN <<>>
    ELSE LET k == CHOOSE i \in 1..Len(s) : \A j \in 1..Len(s) : s[i] <= s[j]
         IN  <<s[k]>> \o SortAsc([i \in 1..(Len(s) - 1) |-> IF i < k THEN s[i] ELSE s[i + 1]])

\* twice the median of a non-empty sequence: twice the middle value, or the
\* sum of the two middle values
TwiceMedian(s) ==
    LET a == SortAsc(s)
        n == Len(a)
    IN  IF n % 2 = 1 THEN 2 * a[(n + 1) \div 2] ELSE a[n \div 2] + a[n \div 2 + 1]

\* the subsequence of s at the indices of the set idx, in index order
RECURSIVE Pick(_, _, _)
Pick(s, idx, i) ==
    IF i > Len(s) THEN <<>>
    ELSE IF i \in idx THEN <<s[i]>> \o Pick(s, idx, i + 1)
    ELSE Pick(s, idx, i + 1)

\* n / d rounded to the nearest integer, a tie to the even one (n >= 0, d > 0)
RoundDiv(n, d) ==
    LET q == n \div d
        r == n % d
    IN  IF 2 * r < d THEN q
        ELSE IF 2 * r > d THEN q + 1
        ELSE IF q % 2 = 0 THEN q ELSE q + 1

None == <<>>
NaT == <<>>
Some(v) == <<v>>
Val(o) == o[1]

\* ------------------------------------------------------------------ BANDS
\* BANDS, in dictionary order; range in half Hertz: (0.5,4) (4,8) (8,12) (12,30) (30,50)
BANDS == <<
    [key |-> "delta", min_freq |-> 1,  max_freq |-> 8],
    [key |-> "theta", min_freq |-> 8,  max_freq |-> 16],
    [key |-> "alpha", min_freq |-> 16, max_freq |-> 24],
    [key |-> "beta",  min_freq |-> 24, max_freq |-> 60],
    [key |-> "gamma", min_freq |-> 60, max_freq |-> 100] >>

BandKeys == {BANDS[b].key : b \in 1..Len(BANDS)}

\* np.trapezoid(y, x), times four: sum of (x[i+1]-x[i]) * (y[i]+y[i+1])
trapezoid(y, x) ==
    SumSeq([i \in 1..(Len(x) - 1) |-> (x[i + 1] - x[i]) * (y[i] + y[i + 1])])

\* a closed upper edge: (freqs >= min_freq) & (freqs <= max_freq)
band_mask_closed(f, band_info) ==
    {i \in 1..Len(f) : f[i] >= band_info.min_freq /\ f[i] <= band_info.max_freq}

\* band_mask = (freqs >= min_freq) & (freqs < max_freq), as the set of its true indices
band_mask(f, band_info) ==
    {i \in 1..Len(f) : f[i] >= band_info.min_freq /\ f[i] < band_info.max_freq}

\* p = trapezoid(psd[band_mask], freqs[band_mask]) if any(band_mask) else 0
band_absolute(f, p, band_info) ==
    LET m == band_mask(f, band_info)
    IN  IF m # {} THEN trapezoid(Pick(p, m, 1), Pick(f, m, 1)) ELSE 0

\* total_power assigned instead of accumulated: the last band's power only
band_total_power_last(f, p) == band_absolute(f, p, BANDS[Len(BANDS)])

\* total_power accumulated over the loop on BANDS
band_total_power(f, p) ==
    SumSeq([b \in 1..Len(BANDS) |-> band_absolute(f, p, BANDS[b])])

\* the relative power of one band: absolute / total_power when total_power > 0, else 0.0
band_relative(absolute, total_power) ==
    IF total_power > 0 THEN [num |-> absolute, den |-> total_power]
    ELSE [num |-> 0, den |-> 1]

band_powers(f, p) ==
    LET total_power == band_total_power(f, p)
    IN  [k \in BandKeys |->
            LET band_info == CHOOSE b \in {BANDS[j] : j \in 1..Len(BANDS)} : b.key = k
                absolute == band_absolute(f, p, band_info)
            IN  [absolute |-> absolute,
                 relative |-> band_relative(absolute, total_power)]]

\* --------------------------------------------------------------- timebase
\* clock ticks per second (pandas: nanoseconds; see the header)
TicksPerSec == 1000

\* pd.to_datetime(x, errors="coerce", utc=True) of one raw entry: the instant
\* a well-formed entry names, NaT for any other
to_datetime(raw) == IF raw.valid THEN Some(raw.t) ELSE NaT

\* pd.to_timedelta(i / rate, unit="s") in ticks
to_timedelta_s(i, rate) == RoundDiv(i * TicksPerSec, rate)

\* np.arange(len(samples)) starting at 1 instead of 0
synth_offset_from_one(i, rate) == to_timedelta_s(i + 1, rate)

\* offsets[i] of np.arange(len(samples)) / sampling_rate, i counted from 0
synth_offset(i, rate) == to_timedelta_s(i, rate)

\* the synthesized branch tried first
channel_timebase_synth_first(ch, cs, rate) ==
    LET samples == ch.samples
        ts_list == ch.timestamps
        ts == [i \in 1..Len(ts_list) |-> to_datetime(ts_list[i])]
    IN  IF ~(cs = None \/ rate = None \/ Val(rate) <= 0 \/ Len(samples) = 0)
        THEN Some([i \in 1..Len(samples) |-> Some(Val(cs) + synth_offset(i - 1, Val(rate)))])
        ELSE IF Len(ts_list) = Len(samples) /\ Len(ts_list) > 0
                /\ ~(\A i \in 1..Len(ts) : ts[i] = NaT)
        THEN Some(ts)
        ELSE None

channel_timebase(ch, cs, rate) ==
    LET samples == ch.samples
        ts_list == ch.timestamps
        ts == [i \in 1..Len(ts_list) |-> to_datetime(ts_list[i])]
    IN  IF Len(ts_list) = Len(samples) /\ Len(ts_list) > 0
           /\ ~(\A i \in 1..Len(ts) : ts[i] = NaT)
        THEN Some(ts)
        ELSE IF cs = None \/ rate = None \/ Val(rate) = 0 \/ Val(rate) <= 0
                \/ Len(samples) = 0
        THEN None
        ELSE Some([i \in 1..Len(samples) |-> Some(Val(cs) + synth_offset(i - 1, Val(rate)))])

\* -------------------------------------------------------------- assembler
DEFAULT_FS == 256

\* x or y, on optional numbers: x when x is present and not 0, else y
Or(x, y) == IF x # None /\ Val(x) # 0 THEN x ELSE y

\* export.get("samplingRateHz") or default_fs
export_file_sampling_rate(export) == Or(export.samplingRateHz, Some(DEFAULT_FS))

\* coerce_timestamp(export.get("capturedAt")): None when absent or unparsable
export_capture_start(export) ==
    IF export.capturedAt = None THEN None ELSE to_datetime(Val(export.capturedAt))

\* channel.get("samplingRateHz") or file_sampling_rate_hz or default_fs
channel_sampling_rate_hz(ch, file_sampling_rate_hz) ==
    Or(ch.samplingRateHz, Or(file_sampling_rate_hz, Some(DEFAULT_FS)))

\* the frame of one channel: one row per sample, or no row when the channel
\* is of another label or has no timebase
channel_frame(export, ch, lbl) ==
    LET rate == channel_sampling_rate_hz(ch, export_file_sampling_rate(export))
        tb == channel_timebase(ch, export_capture_start(export), rate)
    IN  IF ch.label # lbl THEN <<>>
        ELSE IF tb = None \/ (\A i \in 1..Len(Val(tb)) : Val(tb)[i] = NaT) THEN <<>>
        ELSE [i \in 1..Len(ch.samples) |->
                [timestamp |-> Val(tb)[i], sample |-> ch.samples[i],
                 file |-> export.file, label |-> lbl, sampling_rate_hz |-> Val(rate)]]

RECURSIVE Concat(_)
Concat(ss) == IF ss = <<>> THEN <<>> ELSE Head(ss) \o Concat(Tail(ss))

\* pd.concat(frames): export order, then channel order, then sample order
concat_frames(exps, lbl) ==
    Concat([e \in 1..Len(exps) |->
              Concat([c \in 1..Len(exps[e].channels) |->
                        channel_frame(exps[e], exps[e].channels[c], lbl)])])

\* out.dropna(subset=["timestamp"]); the timestamps that are left are plain instants
dropna_timestamp(rows) ==
    LET kept == {i \in 1..Len(rows) : rows[i].timestamp # NaT}
        picked == Pick(rows, kept, 1)
    IN  [i \in 1..Len(picked) |-> [picked[i] EXCEPT !.timestamp = Val(picked[i].timestamp)]]

RECURSIVE Perms(_)
Perms(S) == IF S = {} THEN {<<>>}
            ELSE UNION {{<<x>> \o q : q \in Perms(S \ {x})} : x \in S}

\* the row orders sort_values("timestamp") may produce: ascending timestamps;
\* the default quicksort does not fix the order of rows with equal timestamps
RECURSIVE SortOrdersOf(_, _)
SortOrdersOf(rows, idx) ==
    IF idx = {} THEN {<<>>}
    ELSE LET first == CHOOSE i \in idx : \A j \in idx : rows[i].timestamp <= rows[j].timestamp
             ties == {i \in idx : rows[i].timestamp = rows[first].timestamp}
         IN  {a \o b : a \in Perms(ties), b \in SortOrdersOf(rows, idx \ ties)}

SortOrders(rows) == SortOrdersOf(rows, 1..Len(rows))

\* rows in the order the sort produced
sort_values(rows, order) == [i \in 1..Len(order) |-> rows[order[i]]]

\* duplicates dropped on the timestamp alone
drop_duplicates_timestamp_only(rows) ==
    Pick(rows, {i \in 1..Len(rows) :
                  ~\E j \in 1..(i - 1) : rows[j].timestamp = rows[i].timestamp}, 1)

\* out.drop_duplicates(subset=["timestamp", "file"]): the first row of every pair stays
drop_duplicates(rows) ==
    Pick(rows, {i \in 1..Len(rows) :
                  ~\E j \in 1..(i - 1) : /\ rows[j].timestamp = rows[i].timestamp
                                         /\ rows[j].file = rows[i].file}, 1)

\* pd.Timedelta(seconds=2.0 / sampling_rate), in ticks
discontinuity_threshold(rate) == to_timedelta_s(2, rate)

\* find_discontinuities(df, sampling_rate): one row per difference above the threshold
find_discontinuities(rows, rate) ==
    LET gaps == {i \in 2..Len(rows) :
                   rows[i].timestamp - rows[i - 1].timestamp > discontinuity_threshold(rate)}
        at == Pick([i \in 1..Len(rows) |-> i], gaps, 1)
    IN  [g \in 1..Len(at) |->
            [start_ts |-> rows[at[g] - 1].timestamp, end_ts |-> rows[at[g]].timestamp,
             gap_sec |-> rows[at[g]].timestamp - rows[at[g] - 1].timestamp]]

\* t_sec counted from the epoch instead of the first row
with_t_sec_from_epoch(rows) ==
    [i \in 1..Len(rows) |->
        [timestamp |-> rows[i].timestamp, sample |-> rows[i].sample, file |-> rows[i].file,
         label |-> rows[i].label, sampling_rate_hz |-> rows[i].sampling_rate_hz,
         t_sec |-> rows[i].timestamp]]

\* out["t_sec"] = (out["timestamp"] - out["timestamp"].iloc[0]).dt.total_seconds(), in ticks
with_t_sec(rows) ==
    [i \in 1..Len(rows) |->
        [timestamp |-> rows[i].timestamp, sample |-> rows[i].sample, file |-> rows[i].file,
         label |-> rows[i].label, sampling_rate_hz |-> rows[i].sampling_rate_hz,
         t_sec |-> rows[i].timestamp - rows[1].timestamp]]

\* the rows load_label_timeseries sorts: concatenated, unresolved timestamps dropped
resolved_rows(exps, lbl) == dropna_timestamp(concat_frames(exps, lbl))

\* load_label_timeseries(exports, label), the sort having produced `order`
load_label_timeseries(exps, lbl, order) ==
    with_t_sec(drop_duplicates(sort_values(resolved_rows(exps, lbl), order)))

\* the discontinuities load_label_timeseries looks for in its result
load_label_discontinuities(out) ==
    IF out # <<>> THEN find_discontinuities(out, out[1].sampling_rate_hz) ELSE <<>>

\* --------------------------------------------------------------- spectral
\* samples of one spectral window (1024 in the program; see the header)
NPERSEG == 4
NOVERLAP == NPERSEG \div 2

\* series["sampling_rate_hz"].mode().iloc[0]: the most frequent rate, the
\* smallest of them when several are
rate_mode(rows) ==
    LET count(r) == Cardinality({i \in 1..Len(rows) : rows[i].sampling_rate_hz = r})
        rates == {rows[i].sampling_rate_hz : i \in 1..Len(rows)}
        top == {r \in rates : \A q \in rates : count(q) <= count(r)}
    IN  CHOOSE r \in top : \A q \in top : r <= q

\* the windows of signal.spectrogram(samples, nperseg, noverlap) over n
\* samples: one every nperseg - noverlap samples, none padded; [start, stop)
\* counts samples from 0
spectrogram_windows(n, nperseg, noverlap) ==
    LET step == nperseg - noverlap
    IN  IF n < nperseg THEN <<>>
        ELSE [k \in 1..((n - noverlap) \div step) |->
                [start |-> (k - 1) * step, stop |-> (k - 1) * step + nperseg]]

\* compute_band_power_timeseries(samples, fs): the windows of its spectrogram,
\* step_samples being NPERSEG // 2
band_power_windows(n) ==
    LET step_samples == NPERSEG \div 2
        noverlap == IF NPERSEG - step_samples > 0 THEN NPERSEG - step_samples ELSE 0
    IN  spectrogram_windows(n, NPERSEG, noverlap)

\* compute_band_power_timeseries_for_label: the whole series of the label
\* goes to compute_band_power_timeseries as one array
band_power_windows_for_label(rows) == band_power_windows(Len(rows))

\* compute_band_power_timeseries_for_label: what it raises, or "ok"
band_power_result_for_label(rows) ==
    IF Len(rows) = 0 THEN "ValueError: No samples found"
    ELSE IF band_power_windows_for_label(rows) = <<>> THEN "ValueError: Not enough samples"
    ELSE "ok"

\* diffs = df["timestamp"].diff().dt.total_seconds().fillna(0), in ticks, from index 0
timestamp_diffs(rows) ==
    [i \in 1..Len(rows) |-> IF i = 1 THEN 0 ELSE rows[i].timestamp - rows[i - 1].timestamp]

\* a gap is a difference that reaches the threshold
exceeds_gap_threshold_or_equal(diff, diffs, channel_rate) ==
    LET positive_diffs == Pick(diffs, {i \in 1..Len(diffs) : diffs[i] > 0}, 1)
    IN  IF positive_diffs # <<>> THEN diff >= TwiceMedian(positive_diffs)
        ELSE diff * channel_rate >= 2 * TicksPerSec

\* diffs.iloc[idx] > gap_threshold, where gap_threshold is 2 * median of the
\* positive diffs, and 2.0 / channel_rate seconds when no diff is positive
exceeds_gap_threshold(diff, diffs, channel_rate) ==
    LET positive_diffs == Pick(diffs, {i \in 1..Len(diffs) : diffs[i] > 0}, 1)
    IN  IF positive_diffs # <<>> THEN diff > TwiceMedian(positive_diffs)
        ELSE diff * channel_rate > 2 * TicksPerSec

\* the loop over idx in range(1, len(df)): a segment ends where a gap starts
RECURSIVE gap_segments_from(_, _, _, _)
gap_segments_from(diffs, channel_rate, start_idx, idx) ==
    IF idx >= Len(diffs) THEN <<[start |-> start_idx, stop |-> Len(diffs)]>>
    ELSE IF exceeds_gap_threshold(diffs[idx + 1], diffs, channel_rate)
    THEN <<[start |-> start_idx, stop |-> idx]>>
            \o gap_segments_from(diffs, channel_rate, idx, idx + 1)
    ELSE gap_segments_from(diffs, channel_rate, start_idx, idx + 1)

\* plot_spectrograms_per_label: the segments of the series of one label; a
\* series shorter than nperseg is skipped before it is segmented
gap_segments(rows, nperseg) ==
    IF Len(rows) = 0 \/ Len(rows) < nperseg THEN <<>>
    ELSE gap_segments_from(timestamp_diffs(rows), rate_mode(rows), 0, 1)

\* the windows of the spectrograms of the segments that hold nperseg samples
segment_windows(segs, nperseg, noverlap) ==
    Concat([g \in 1..Len(segs) |->
              LET w == spectrogram_windows(segs[g].stop - segs[g].start, nperseg, noverlap)
              IN  [k \in 1..Len(w) |-> [start |-> segs[g].start + w[k].start,
                                        stop |-> segs[g].start + w[k].stop]]])

\* --------------------------------------------------------------- combined
\* step_samples = NPERSEG // 2; t_sec and step_sec are carried in samples
step_samples == NPERSEG \div 2

\* d["t_bin"] = (d["t_sec"] / step_sec).round().astype(int)
t_bin(t_sec) == RoundDiv(t_sec, step_samples)

\* the bin ids of one table
table_bins(df) == {t_bin(df[i].t_sec) : i \in 1..Len(df)}

\* d.groupby("t_bin").mean(): the mean absolute power of one band over the rows of a bin
bin_mean_abs(df, b, key) ==
    LET at == {i \in 1..Len(df) : t_bin(df[i].t_sec) = b}
        picked == Pick(df, at, 1)
    IN  RatDiv(RatSum([i \in 1..Len(picked) |-> [num |-> picked[i].abs[key], den |-> 1]]),
               [num |-> Len(picked), den |-> 1])

\* the bin ids every table has, left in descending order
common_bins_descending(bp) ==
    LET common == {b \in UNION {table_bins(bp[f]) : f \in 1..Len(bp)} :
                     \A f \in 1..Len(bp) : b \in table_bins(bp[f])}
        asc == SortAsc(Pick([i \in 1..(MaxWindows + 1) |-> i], common, 1))
    IN  [i \in 1..Len(asc) |-> asc[Len(asc) + 1 - i]]

\* the bin ids every table has, ascending
common_bins(bp) ==
    LET common == {b \in UNION {table_bins(bp[f]) : f \in 1..Len(bp)} :
                     \A f \in 1..Len(bp) : b \in table_bins(bp[f])}
    IN  SortAsc(Pick([i \in 1..(MaxWindows + 1) |-> i], common, 1))

\* avg = sum(frames) / len(frames), one band of one bin
combined_abs(bp, b, key) ==
    RatDiv(RatSum([f \in 1..Len(bp) |-> bin_mean_abs(bp[f], b, key)]),
           [num |-> Len(bp), den |-> 1])

\* the relative power of a band of a table in a bin, the mean over its rows
bin_mean_rel(df, b, key) ==
    LET at == {i \in 1..Len(df) : t_bin(df[i].t_sec) = b}
        picked == Pick(df, at, 1)
    IN  RatDiv(RatSum([i \in 1..Len(picked) |-> picked[i].rel[key]]),
               [num |-> Len(picked), den |-> 1])

\* avg[rel_col] = np.where(denom > 0, avg[abs_col] / denom, 0.0),
\* denom = avg[value_cols_abs].sum(axis=1)
combined_rel(avg, key) ==
    LET denom == RatSum([j \in 1..Len(BANDS) |-> avg[BANDS[j].key]])
    IN  IF denom.num > 0 THEN RatDiv(avg[key], denom)
        ELSE [num |-> 0, den |-> 1]

\* one row of a combined table whose relative powers are the tables' averaged
combined_row_rel_averaged(bp, b) ==
    [t_sec |-> b * step_samples,
     abs |-> [k \in BandKeys |-> combined_abs(bp, b, k)],
     rel |-> [k \in BandKeys |->
                RatDiv(RatSum([f \in 1..Len(bp) |-> bin_mean_rel(bp[f], b, k)]),
                       [num |-> Len(bp), den |-> 1])]]

\* one row of the combined table: avg["t_sec"] = avg.index * step_sec, the
\* averaged absolute powers, the relative powers recomputed from them
combined_row(bp, b) ==
    LET avg == [k \in BandKeys |-> combined_abs(bp, b, k)]
    IN  [t_sec |-> b * step_samples,
         abs |-> avg,
         rel |-> [k \in BandKeys |-> combined_rel(avg, k)]]

\* the rates of the tables are carried in quarters of a micro-hertz
RateStepsPerHz == 4000000

\* 1e-6 Hz
RATE_TOLERANCE == 4

\* any(abs(fs - fs0) > 1e-6 for fs in fs_values[1:])
mismatched_rates(fsv) ==
    \E i \in 2..Len(fsv) : \/ fsv[i] - fsv[1] > RATE_TOLERANCE
                            \/ fsv[1] - fsv[i] > RATE_TOLERANCE

\* a row of a table of one label, its powers as exact fractions
passed_row(r) ==
    [t_sec |-> r.t_sec,
     timestamp |-> r.timestamp,
     amplitude_artifact |-> r.amplitude_artifact,
     line_noise_artifact |-> r.line_noise_artifact,
     abs |-> [k \in BandKeys |-> [num |-> r.abs[k], den |-> 1]],
     rel |-> r.rel]

\* x.mean() of timestamps: the mean instant, cut to the clock tick
mean_timestamp(tss) == SumSeq(tss) \div Len(tss)

\* the rows of a table that have a timestamp: ts.dropna(subset=["timestamp"])
timestamp_rows(df) == Pick(df, {i \in 1..Len(df) : df[i].timestamp # None}, 1)

\* ts_frames: the tables with a timestamp column that has a value in some row
ts_frames(bp) ==
    Pick(bp, {f \in 1..Len(bp) : timestamp_rows(bp[f]) # <<>>}, 1)

\* the first table's timestamp of a bin instead of the mean over the tables
ts_mean_of_first(tsf, b) ==
    LET rows == timestamp_rows(tsf[1])
        picked == Pick(rows, {i \in 1..Len(rows) : t_bin(rows[i].t_sec) = b}, 1)
    IN  mean_timestamp([i \in 1..Len(picked) |-> Val(picked[i].timestamp)])

\* ts_values.mean(axis=1) at bin b: the mean over the tables of the mean
\* timestamp each has in the bin (groupby("t_bin")["timestamp"] ... mean())
ts_mean(tsf, b) ==
    mean_timestamp([f \in 1..Len(tsf) |->
        LET rows == timestamp_rows(tsf[f])
            picked == Pick(rows, {i \in 1..Len(rows) : t_bin(rows[i].t_sec) = b}, 1)
        IN  mean_timestamp([i \in 1..Len(picked) |-> Val(picked[i].timestamp)])])

\* ts_common: the bins in which every table of ts_frames has a timestamp, ascending
ts_common_bins(tsf) ==
    IF tsf = <<>> THEN <<>>
    ELSE common_bins([f \in 1..Len(tsf) |-> timestamp_rows(tsf[f])])

\* avg["timestamp"] = ts_mean.to_numpy(): the means in the order of ts_common,
\* set on the rows of avg by position; no column when ts_common is empty
with_timestamps(rows, tsf) ==
    LET ts_common == ts_common_bins(tsf)
    IN  [i \in 1..Len(rows) |->
            [t_sec |-> rows[i].t_sec,
             timestamp |-> IF ts_common = <<>> THEN None
                           ELSE Some(ts_mean(tsf, ts_common[i])),
             abs |-> rows[i].abs,
             rel |-> rows[i].rel]]

\* a single table binned and averaged like a group
combine_band_power_always_binned(bp, fsv) ==
    IF mismatched_rates(fsv)
    THEN [error |-> "ValueError: Mismatched sampling rates", rows |-> <<>>, fs |-> 0,
          reported |-> {fsv[i] : i \in 1..Len(fsv)}]
    ELSE LET common == common_bins(bp)
         IN  IF common = <<>>
             THEN [error |-> "ValueError: No overlapping time bins", rows |-> <<>>, fs |-> 0,
                   reported |-> {}]
             ELSE [error |-> "",
                   rows |-> with_timestamps([i \in 1..Len(common) |-> combined_row(bp, common[i])],
                                            ts_frames(bp)),
                   fs |-> fsv[1], reported |-> {}]

\* compute_band_power_timeseries_combined, from fs0 = fs_values[0] on
combine_band_power(bp, fsv) ==
    IF mismatched_rates(fsv)
    THEN [error |-> "ValueError: Mismatched sampling rates", rows |-> <<>>, fs |-> 0,
          reported |-> {fsv[i] : i \in 1..Len(fsv)}]
    ELSE IF Len(bp) = 1
    THEN [error |-> "", rows |-> [i \in 1..Len(bp[1]) |-> passed_row(bp[1][i])], fs |-> fsv[1],
          reported |-> {}]
    ELSE LET common == common_bins(bp)
             ts_common == ts_common_bins(ts_frames(bp))
         IN  IF common = <<>>
             THEN [error |-> "ValueError: No overlapping time bins", rows |-> <<>>, fs |-> 0,
                   reported |-> {}]
             ELSE IF ts_common # <<>> /\ Len(ts_common) # Len(common)
             THEN [error |-> "ValueError: Length of values does not match length of index",
                   rows |-> <<>>, fs |-> 0, reported |-> {}]
             ELSE [error |-> "",
                   rows |-> with_timestamps([i \in 1..Len(common) |-> combined_row(bp, common[i])],
                                            ts_frames(bp)),
                   fs |-> fsv[1], reported |-> {}]

\* --------------------------------------------------------------- artifacts
\* fewest samples compute_line_noise_ratio estimates a spectrum from
MIN_WELCH_SAMPLES == 8

\* float("nan")
NaN == <<>>

\* compute_line_noise_ratio(window, ...), the Welch estimate of a window of at
\* least 8 samples having come out as `welch_ratio` (quarters)
compute_line_noise_ratio(window, welch_ratio) ==
    IF Len(window) < MIN_WELCH_SAMPLES THEN NaN ELSE Some(welch_ratio)

\* np.ptp(window)
ptp(window) ==
    LET vals == {window[i] : i \in 1..Len(window)}
    IN  (CHOOSE x \in vals : \A y \in vals : y <= x) - (CHOOSE x \in vals : \A y \in vals : x <= y)

\* max(1, int(round(sec * fs))), sec in half seconds
window_length(half_sec, fs) ==
    IF RoundDiv(half_sec * fs, 2) > 1 THEN RoundDiv(half_sec * fs, 2) ELSE 1

\* window starts up to the last sample, full window or not
window_starts_to_end(n, window_len, step_len) ==
    [k \in 1..((n - 1) \div step_len + 1) |-> (k - 1) * step_len]

\* range(0, samples.size - window_samples + 1, step_samples)
window_starts(n, window_len, step_len) ==
    IF n - window_len + 1 <= 0 THEN <<>>
    ELSE [k \in 1..((n - window_len) \div step_len + 1) |-> (k - 1) * step_len]

\* threshold is not None and value >= threshold
exceeds_threshold_or_equal(value, threshold) ==
    threshold # None /\ value # NaN /\ Val(value) >= Val(threshold)

\* threshold is not None and value > threshold; a comparison with nan is False
exceeds_threshold(value, threshold) ==
    threshold # None /\ value # NaN /\ Val(value) > Val(threshold)

\* one row of compute_artifact_metrics: the window that starts at `start`
artifact_row(args, start, welch_ratio) ==
    LET window_samples == window_length(args.window_sec, args.fs)
        last == IF start + window_samples < Len(args.samples) THEN start + window_samples
                ELSE Len(args.samples)
        window == SubSeq(args.samples, start + 1, last)
        amplitude_range == ptp(window)
        line_noise_ratio == compute_line_noise_ratio(window, welch_ratio)
        amplitude_artifact == exceeds_threshold(Some(amplitude_range),
                                                args.amplitude_range_threshold)
        line_noise_artifact == exceeds_threshold(line_noise_ratio,
                                                 args.line_noise_ratio_threshold)
    IN  [t_sec |-> Rat(start + window_samples, args.fs),
         timestamp |-> None,
         amplitude_range |-> amplitude_range,
         line_noise_ratio |-> line_noise_ratio,
         amplitude_artifact |-> amplitude_artifact,
         line_noise_artifact |-> line_noise_artifact,
         artifact |-> (amplitude_artifact \/ line_noise_artifact)]

\* the window starts of compute_artifact_metrics for these arguments
artifact_window_starts(args) ==
    window_starts(Len(args.samples), window_length(args.window_sec, args.fs),
                  window_length(args.step_sec, args.fs))

\* compute_artifact_metrics(samples, fs, window_sec, step_sec, thresholds),
\* welch_ratios[k] being the Welch outcome of the k-th window
compute_artifact_metrics(args, welch_ratios) ==
    LET starts == artifact_window_starts(args)
    IN  IF Len(args.samples) < window_length(args.window_sec, args.fs) THEN <<>>
        ELSE [k \in 1..Len(starts) |-> artifact_row(args, starts[k], welch_ratios[k])]

\* -------------------------------------------------------------------- ppg
\* last_peak = -10**9
NO_PEAK == -1000000000

\* v < threshold, threshold = median + 1.25 * mad, mad being the median of
\* |samples - median|, or 1e-6 when that is 0; whole-number samples, the
\* comparison carried times 16
below_threshold(v, samples) ==
    LET median2 == TwiceMedian(samples)
        mad4 == TwiceMedian([j \in 1..Len(samples) |->
                    IF 2 * samples[j] >= median2 THEN 2 * samples[j] - median2
                    ELSE median2 - 2 * samples[j]])
    IN  IF mad4 = 0 THEN 2 * v <= median2
        ELSE 16 * v < 8 * median2 + 5 * mad4

\* max(1, int(round(sample_rate_hz * min_spacing_sec))), the seconds in tenths
ppg_min_spacing(args) ==
    IF RoundDiv(args.sample_rate_hz * args.min_spacing_sec, 10) > 1
    THEN RoundDiv(args.sample_rate_hz * args.min_spacing_sec, 10) ELSE 1

\* any later candidate is far enough
spaced_enough_always(i, last, min_spacing) == i > last

\* i - last_peak >= min_spacing
spaced_enough(i, last, min_spacing) == i - last >= min_spacing

\* v > samples[i - 1] and v > samples[i + 1], above the threshold; i from 0
is_candidate(samples, i) ==
    /\ ~below_threshold(samples[i + 1], samples)
    /\ samples[i + 1] > samples[i]
    /\ samples[i + 1] > samples[i + 2]

\* ------------------------------------------------------------------ pulse
\* the loop body of find_ppg_peaks for one i, on the locals st = [peaks, last_peak]
peak_step(samples, min_spacing, i, st) ==
    IF ~is_candidate(samples, i) THEN st
    ELSE IF spaced_enough(i, st.last_peak, min_spacing)
    THEN [peaks |-> Append(st.peaks, i), last_peak |-> i]
    ELSE IF st.peaks # <<>> /\ samples[i + 1] > samples[st.peaks[Len(st.peaks)] + 1]
    THEN [peaks |-> [st.peaks EXCEPT ![Len(st.peaks)] = i], last_peak |-> i]
    ELSE st

\* for i in range(1, len(samples) - 1)
RECURSIVE peak_loop(_, _, _, _)
peak_loop(samples, min_spacing, i, st) ==
    IF i >= Len(samples) - 1 THEN st
    ELSE peak_loop(samples, min_spacing, i + 1, peak_step(samples, min_spacing, i, st))

\* find_ppg_peaks(samples, sample_rate_hz) with the default min_spacing_sec = 0.4
find_ppg_peaks(samples, sample_rate_hz) ==
    IF Len(samples) < 3 THEN <<>>
    ELSE peak_loop(samples,
                   ppg_min_spacing([sample_rate_hz |-> sample_rate_hz, min_spacing_sec |-> 4]),
                   1, [peaks |-> <<>>, last_peak |-> NO_PEAK]).peaks

\* samples.size < sample_rate_hz * 3
too_short(args) == Len(args.samples) < args.sample_rate_hz * 3

\* the levels of a filtered waveform
FilteredLevels == {0, 1, 2}

\* ppg_bandpass(_detrend(samples), 0.5, 4.0, sample_rate_hz).  The biquad
\* sections are not computed: a constant signal detrends to zeros, which
\* filter to zeros; any other signal filters to some waveform of its length
ppg_bandpass_detrend(samples) ==
    IF \A i \in 1..Len(samples) : samples[i] = samples[1]
    THEN {[i \in 1..Len(samples) |-> 0]}
    ELSE [1..Len(samples) -> FilteredLevels]

\* np.diff(peaks)
np_diff(p) == [k \in 1..(Len(p) - 1) |-> p[k + 1] - p[k]]

\* bpm_min and bpm_max, the defaults of compute_ppg_hr
BPM_MIN == 35
BPM_MAX == 220

\* any rate is accepted
bpm_out_of_range_never(sample_rate_hz, median2) == FALSE

\* bpm < bpm_min or bpm > bpm_max, bpm = 60 * sample_rate_hz / median_samples,
\* on twice the median
bpm_out_of_range(sample_rate_hz, median2) ==
    \/ 120 * sample_rate_hz < BPM_MIN * median2
    \/ 120 * sample_rate_hz > BPM_MAX * median2

\* compute_ppg_hr after the filter: None or <<float(round(bpm))>>
ppg_hr(sample_rate_hz, found) ==
    IF Len(found) < 2 THEN None
    ELSE LET median2 == TwiceMedian(np_diff(found))
         IN  IF median2 <= 0 THEN None
             ELSE IF bpm_out_of_range(sample_rate_hz, median2) THEN None
             ELSE Some(RoundDiv(120 * sample_rate_hz, median2))

\* the segments from the first peak on
cardiogram_start_all(n_peaks, beats) == 1

\* start = max(1, len(peaks) - beats)
cardiogram_start(n_peaks, beats) == IF n_peaks - beats > 1 THEN n_peaks - beats ELSE 1

\* for i in range(start, len(peaks)): segments.append(filtered[a:b]) if b > a;
\* found[i] is peaks[i - 1]
RECURSIVE cardiogram_segments(_, _, _)
cardiogram_segments(filtered, found, i) ==
    IF i >= Len(found) THEN <<>>
    ELSE (IF found[i + 1] > found[i]
          THEN <<SubSeq(filtered, found[i] + 1, found[i + 1])>>
          ELSE <<>>)
         \o cardiogram_segments(filtered, found, i + 1)

\* np.concatenate(segments)
RECURSIVE np_concatenate(_)
np_concatenate(segs) ==
    IF segs = <<>> THEN <<>> ELSE Head(segs) \o np_concatenate(Tail(segs))

\* build_ppg_cardiogram after the filter: None or <<waveform>>
ppg_cardiogram(filtered, found, beats) ==
    IF Len(found) < 2 THEN None
    ELSE LET segs == cardiogram_segments(filtered, found, cardiogram_start(Len(found), beats))
         IN  IF segs = <<>> THEN None ELSE Some(np_concatenate(segs))

\* ------------------------------------------------------------------- spo2
\* SPO2_MIN_PI = 0.005
SPO2_MIN_PI == [num |-> 1, den |-> 200]

\* a <= b for fractions of positive denominator
RatLeq(a, b) == a.num * b.den <= b.num * a.den

\* x[-n:]
last_n(x, n) == IF n = 0 THEN x ELSE SubSeq(x, Len(x) - n + 1, Len(x))

\* np.isfinite of a quotient
isfinite(q) == q.den # 0

\* the value unclipped
clip_none(v, lo, hi) == v

\* np.clip(v, lo, hi) of a fraction between two whole numbers
clip(v, lo, hi) ==
    IF v.num < lo * v.den THEN [num |-> lo, den |-> 1]
    ELSE IF v.num > hi * v.den THEN [num |-> hi, den |-> 1]
    ELSE v

\* 110.0 - 25.0 * ratio
spo2_linear_of(ratio) == Rat(110 * ratio.den - 25 * ratio.num, ratio.den)

\* -45.06 * ratio * ratio + 30.354 * ratio + 94.845
spo2_quadratic_of(ratio) ==
    Rat(94845 * ratio.den * ratio.den + 30354 * ratio.num * ratio.den
        - 45060 * ratio.num * ratio.num,
        1000 * ratio.den * ratio.den)

\* pi_ir <= SPO2_MIN_PI or pi_red <= SPO2_MIN_PI
pi_low(pi_ir, pi_red) == RatLeq(pi_ir, SPO2_MIN_PI) \/ RatLeq(pi_red, SPO2_MIN_PI)

\* the AC check before the DC check
spo2_checks_ac_first(dc, amp) ==
    IF amp.ir <= 0 \/ amp.red <= 0 THEN "AC_ZERO"
    ELSE IF dc.ir <= 0 \/ dc.red <= 0 THEN "DC_ZERO"
    ELSE ""

\* the checks on the DC means and on the AC amplitudes, in their order
spo2_checks(dc, amp) ==
    IF dc.ir <= 0 \/ dc.red <= 0 THEN "DC_ZERO"
    ELSE IF amp.ir <= 0 \/ amp.red <= 0 THEN "AC_ZERO"
    ELSE ""

\* spo2_ratio_of_ratios(ir, red, sample_rate_hz), the filters having yielded
\* the DC means dc = [ir, red] and the AC amplitudes amp = [ir, red] on the
\* aligned windows
spo2_ratio_of_ratios(args, dc, amp) ==
    LET n == IF Len(args.ir) < Len(args.red) THEN Len(args.ir) ELSE Len(args.red)
        pi_ir == Rat(amp.ir, dc.ir)
        pi_red == Rat(amp.red, dc.red)
        ratio == RatDiv(pi_red, pi_ir)
    IN  IF n < args.sample_rate_hz * 3 THEN [ok |-> FALSE, reason |-> "NO_SIGNAL"]
        ELSE IF spo2_checks(dc, amp) # "" THEN [ok |-> FALSE, reason |-> spo2_checks(dc, amp)]
        ELSE IF ~isfinite(pi_ir) \/ ~isfinite(pi_red)
        THEN [ok |-> FALSE, reason |-> "PI_NAN", pi_ir |-> pi_ir, pi_red |-> pi_red]
        ELSE IF pi_low(pi_ir, pi_red)
        THEN [ok |-> FALSE, reason |-> "PI_LOW", pi_ir |-> pi_ir, pi_red |-> pi_red,
              ratio |-> ratio]
        ELSE [ok |-> TRUE, ratio |-> ratio, pi_ir |-> pi_ir, pi_red |-> pi_red,
              spo2_linear |-> clip(spo2_linear_of(ratio), 80, 100),
              spo2_quadratic |-> clip(spo2_quadratic_of(ratio), 80, 100)]

\* the locals of spo2_ratio_of_ratios at its return
spo2_locals_at_return(args, dc, amp) ==
    LET n == IF Len(args.ir) < Len(args.red) THEN Len(args.ir) ELSE Len(args.red)
        no_signal == n < args.sample_rate_hz * 3
        dc_zero == dc.ir <= 0 \/ dc.red <= 0
    IN  [ir_dc_mean |-> IF no_signal THEN None ELSE Some(dc.ir),
         red_dc_mean |-> IF no_signal THEN None ELSE Some(dc.red),
         ir_ac_amp |-> IF no_signal \/ dc_zero THEN None ELSE Some(amp.ir),
         red_ac_amp |-> IF no_signal \/ dc_zero THEN None ELSE Some(amp.red)]

\* abs(np.mean(_lowpass_fft(x, ...))) of a window: 0.0 for zeros, not 0 for
\* another constant, else some mean
DcMeans == {0, 100, 200, 400}
lowpass_dc_mean(x) ==
    IF \A i \in 1..Len(x) : x[i] = 0 THEN {0}
    ELSE IF \A i \in 1..Len(x) : x[i] = x[1] THEN DcMeans \ {0}
    ELSE DcMeans

\* _percentile_amp(_bandpass_fft(_detrend(x), ...)) of a window: 0.0 for a
\* constant, else some amplitude
AcAmps == {0, 1, 2, 3}
bandpass_ac_amp(x) ==
    IF \A i \in 1..Len(x) : x[i] = x[1] THEN {0} ELSE AcAmps

\* ------------------------------------------------------------------ sweep
\* the series load_label_timeseries finds for a label, of which the sweeps
\* use the length only
sweep_series(n) == [i \in 1..n |-> [sample |-> i]]

\* compute_artifact_df, one label: ts_df.empty or metrics.empty, with the
\* default window_sec = 2.0 at fs
artifact_skipped(n, fs) == n = 0 \/ n < window_length(4, fs)

\* compute_artifact_df: the labels of artifact_frames
artifact_df_labels(labels, samples, fs) ==
    Pick(labels, {i \in 1..Len(labels) : ~artifact_skipped(samples[labels[i]], fs)}, 1)

\* compute_band_power_timeseries_combined(exports, group): "ok" or what the
\* first failing compute_band_power_timeseries_for_label of its loop raises
RECURSIVE combined_group_result(_, _, _)
combined_group_result(group, samples, i) ==
    IF i > Len(group) THEN "ok"
    ELSE LET r == band_power_result_for_label(sweep_series(samples[group[i]]))
         IN  IF r # "ok" THEN r ELSE combined_group_result(group, samples, i + 1)

\* str(l).startswith("TP"), str(l).startswith("AF")
site(l) == CASE l \in {"TP9", "TP10"} -> "TP" [] l \in {"AF7", "AF8"} -> "AF" [] OTHER -> ""

\* infer_hemisphere(label): odd trailing number left, even right
infer_hemisphere(l) == IF l \in {"TP9", "AF7"} THEN "left" ELSE "right"

\* plot_band_power_diagrams: groups
band_power_groups(labels) ==
    LET sub(P(_)) == Pick(labels, {i \in 1..Len(labels) : P(labels[i])}, 1)
        is_tp(l) == site(l) = "TP"
        is_af(l) == site(l) = "AF"
        is_left(l) == infer_hemisphere(l) = "left"
        is_right(l) == infer_hemisphere(l) = "right"
        named(name, g) == IF g # <<>> THEN <<[name |-> name, labels |-> g]>> ELSE <<>>
    IN  [i \in 1..Len(labels) |-> [name |-> labels[i], labels |-> <<labels[i]>>]]
        \o named("TP Combined", sub(is_tp))
        \o named("AF Combined", sub(is_af))
        \o named("Left Combined", sub(is_left))
        \o named("Right Combined", sub(is_right))
        \o <<[name |-> "All Combined", labels |-> labels]>>

\* plot_band_power_diagrams: the loop over the groups from group i on, done
\* being the groups plotted so far; an exception ends the loop
RECURSIVE band_power_sweep(_, _, _, _)
band_power_sweep(groups, samples, i, done) ==
    IF i > Len(groups) THEN [done |-> done, error |-> ""]
    ELSE LET r == combined_group_result(groups[i].labels, samples, 1)
         IN  IF r # "ok" THEN [done |-> done, error |-> r]
             ELSE band_power_sweep(groups, samples, i + 1, Append(done, groups[i].name))

\* ---------------------------------------------------------------- mapping
\* a label is the sequence of its characters
Str_ambient == <<"a", "m", "b", "i", "e", "n", "t">>
Str_green == <<"g", "r", "e", "e", "n">>
Str_infrared == <<"i", "n", "f", "r", "a", "r", "e", "d">>
Str_ir == <<"i", "r">>
Str_red == <<"r", "e", "d">>
Str_PPG1 == <<"P", "P", "G", "1">>
Str_PPG2 == <<"P", "P", "G", "2">>
Str_PPG3 == <<"P", "P", "G", "3">>

\* str.lower() of one character
lower_char(c) ==
    CASE c = "A" -> "a" [] c = "D" -> "d" [] c = "E" -> "e" [] c = "G" -> "g"
      [] c = "I" -> "i" [] c = "P" -> "p" [] c = "R" -> "r" [] OTHER -> c

\* _ppg_label_name(label): str(label).lower()
ppg_label_name(lbl) == [i \in 1..Len(lbl) |-> lower_char(lbl[i])]

\* sub in name
contains(name, sub) ==
    \E k \in 0..(Len(name) - Len(sub)) : SubSeq(name, k + 1, k + Len(sub)) = sub

\* next((lbl for lbl, name in names.items() if ...), None), hits being the
\* positions of the labels whose name passes the test
first_label(labels, hits) ==
    IF hits = {} THEN None
    ELSE Some(labels[CHOOSE i \in hits : \A j \in hits : i <= j])

\* a role left None falls back to the PPGn label when labels has it
or_fallback(found, labels, fallback) ==
    IF found = None /\ \E i \in 1..Len(labels) : labels[i] = fallback
    THEN Some(fallback) ELSE found

\* infer_ppg_mapping(labels)
infer_ppg_mapping(labels) ==
    LET is_ambient(name) == name = Str_ambient \/ contains(name, Str_ambient)
                            \/ contains(name, Str_green)
        is_infrared(name) == name \in {Str_ir, Str_infrared} \/ contains(name, Str_infrared)
                             \/ name = Str_ir
        is_red(name) == name = Str_red \/ contains(name, Str_red)
        hits(P(_)) == {i \in 1..Len(labels) : P(ppg_label_name(labels[i]))}
    IN  IF labels = <<>> THEN [ambient |-> None, infrared |-> None, red |-> None]
        ELSE [ambient |-> or_fallback(first_label(labels, hits(is_ambient)), labels, Str_PPG1),
              infrared |-> or_fallback(first_label(labels, hits(is_infrared)), labels, Str_PPG2),
              red |-> or_fallback(first_label(labels, hits(is_red)), labels, Str_PPG3)]

\* ------------------------------------------------------- band-power rows
\* step_samples, NPERSEG // 2 when None
band_power_step(args) ==
    IF args.step_samples = None THEN NPERSEG \div 2 ELSE Val(args.step_samples)

\* noverlap = max(0, nperseg - step_samples)
band_power_noverlap(step_len) == IF NPERSEG - step_len > 0 THEN NPERSEG - step_len ELSE 0

\* the spectrogram column of a row is the next one not yet used by a row
psd_column_next_unused(idx, emitted) == emitted

\* psd_win = psd[:, idx]; emitted counts the rows appended before this one
psd_column(idx, emitted) == idx

\* one row of compute_band_power_timeseries: loop index idx, window start
\* `start`, the spectrogram column it reads computed over the samples col.
\* The row carries the window of its band powers in place of the powers, and
\* `start`, the loop variable, next to the columns of the table; a segment
\* has NPERSEG samples, 1024 in the program, so its line-noise ratio is a
\* Welch estimate and never nan
band_power_row(args, start, col, welch_ratio) ==
    LET seg == SubSeq(args.samples, start + 1, start + NPERSEG)
        amplitude_range == ptp(seg)
    IN  [start |-> start,
         t_sec |-> col.start + NPERSEG \div 2,
         amplitude_range |-> amplitude_range,
         line_noise_ratio |-> welch_ratio,
         amplitude_artifact |-> exceeds_threshold(Some(amplitude_range),
                                                  args.amplitude_range_threshold),
         line_noise_artifact |-> exceeds_threshold(Some(welch_ratio),
                                                   args.line_noise_ratio_threshold),
         psd_window |-> col]

\* the loop of compute_band_power_timeseries from index idx on, `emitted`
\* rows appended so far
RECURSIVE band_power_rows_from(_, _, _, _, _, _)
band_power_rows_from(args, welch_ratios, starts, cols, idx, emitted) ==
    IF idx >= Len(starts) \/ idx >= Len(cols) THEN <<>>
    ELSE LET row == band_power_row(args, starts[idx + 1],
                                   cols[psd_column(idx, emitted) + 1], welch_ratios[idx + 1])
         IN  IF args.reject_artifacts /\ (row.amplitude_artifact \/ row.line_noise_artifact)
             THEN band_power_rows_from(args, welch_ratios, starts, cols, idx + 1, emitted)
             ELSE <<row>> \o band_power_rows_from(args, welch_ratios, starts, cols,
                                                  idx + 1, emitted + 1)

\* compute_band_power_timeseries(samples, fs, step_samples, ...) on an array
compute_band_power_timeseries(args, welch_ratios) ==
    LET n == Len(args.samples)
        step_len == band_power_step(args)
        cols == spectrogram_windows(n, NPERSEG, band_power_noverlap(step_len))
        starts == window_starts(n, NPERSEG, step_len)
    IN  IF n < NPERSEG THEN <<>>
        ELSE band_power_rows_from(args, welch_ratios, starts, cols, 0, 0)

\* ------------------------------------------------------------- idle state
\* the variables of a function family that a specification does not run
IdleBands ==
    /\ bp_pc = "idle"
    /\ freqs = <<>>
    /\ psd = <<>>
    /\ bp_mask = [k \in BandKeys |-> {}]
    /\ bp_totals = [k \in BandKeys |-> [absolute |-> 0, relative |-> [num |-> 0, den |-> 1]]]

IdleTimebase ==
    /\ tb_pc = "idle"
    /\ channel = [label |-> "", samples |-> <<>>, timestamps |-> <<>>, samplingRateHz |-> None]
    /\ capture_start = None
    /\ sampling_rate = None
    /\ tbase = None

IdleAssemble ==
    /\ asm_pc = "idle"
    /\ exports = <<>>
    /\ label = ""
    /\ series = <<>>
    /\ discontinuities = <<>>

IdleSpectral ==
    /\ sp_pc = "idle"
    /\ sp_result = ""
    /\ spec_windows = <<>>
    /\ segments = <<>>

IdleCombined ==
    /\ cb_pc = "idle"
    /\ bp_list = <<>>
    /\ fs_values = <<>>
    /\ combined = [error |-> "", rows |-> <<>>, fs |-> 0, reported |-> {}]

IdleRate ==
    /\ rate_pc = "idle"
    /\ rate_export = [capturedAt |-> None, samplingRateHz |-> None]
    /\ rate_ch = [samples |-> <<>>, timestamps |-> <<>>, samplingRateHz |-> None]
    /\ rate_hz = None
    /\ rate_tbase = None

IdleArtifact ==
    /\ art_pc = "idle"
    /\ art_args = [samples |-> <<>>, fs |-> 0, window_sec |-> 0, step_sec |-> 0,
                   amplitude_range_threshold |-> None,
                   line_noise_ratio_threshold |-> None]
    /\ art_rows = <<>>

IdlePpg ==
    /\ ppg_pc = "idle"
    /\ ppg_args = [samples |-> <<>>, sample_rate_hz |-> 0, min_spacing_sec |-> 0]
    /\ ppg_i = 0
    /\ peaks = <<>>
    /\ last_peak = 0

IdlePulse ==
    /\ pulse_pc = "idle"
    /\ pulse_args = [samples |-> <<>>, sample_rate_hz |-> 0, beats |-> 0]
    /\ pulse_filtered = <<>>
    /\ pulse_peaks = <<>>
    /\ hr = None
    /\ cardiogram = None

IdleSpo2 ==
    /\ spo2_pc = "idle"
    /\ spo2_args = [ir |-> <<>>, red |-> <<>>, sample_rate_hz |-> 0]
    /\ spo2_locals = [ir_dc_mean |-> None, red_dc_mean |-> None,
                      ir_ac_amp |-> None, red_ac_amp |-> None]
    /\ spo2_result = [ok |-> FALSE]

IdleSweep ==
    /\ sweep_pc = "idle"
    /\ sweep_labels = <<>>
    /\ sweep_samples = <<>>
    /\ sweep_done = <<>>
    /\ sweep_error = ""

IdleMapping ==
    /\ map_pc = "idle"
    /\ map_labels = <<>>
    /\ ppg_mapping = [ambient |-> None, infrared |-> None, red |-> None]

IdleRows ==
    /\ bpt_pc = "idle"
    /\ bpt_args = [samples |-> <<>>, step_samples |-> None, reject_artifacts |-> FALSE,
                   amplitude_range_threshold |-> None,
                   line_noise_ratio_threshold |-> None]
    /\ bpt_ratios = <<>>
    /\ bpt_rows = <<>>

\* ------------------------------------------------------------ SpecTimebase
\* raw timestamp entries of an export: well-formed instants and one malformed entry
RawInstants == {0, 500, 3000}
RawEntries == {[valid |-> TRUE, t |-> t] : t \in RawInstants} \cup {[valid |-> FALSE, t |-> 0]}

SeqsUpTo(S, n) == UNION {[1..k -> S] : k \in 0..n}

\* the samples of a channel carry their index: the values play no part in the timebase
SampleRuns == {[i \in 1..n |-> i] : n \in 0..MaxSamples}

RateArgs == {None, Some(-1), Some(0), Some(1), Some(2), Some(3)}
StartArgs == {None, Some(0), Some(250)}

InitTimebase ==
    /\ IdleBands
    /\ IdleAssemble
    /\ IdleSpectral
    /\ IdleCombined
    /\ IdleRate
    /\ IdleArtifact
    /\ IdlePpg
    /\ IdlePulse
    /\ IdleSpo2
    /\ IdleSweep
    /\ IdleMapping
    /\ IdleRows
    /\ tb_pc = "call"
    /\ channel \in [label : {"TP9"}, samples : SampleRuns,
                    timestamps : SeqsUpTo(RawEntries, MaxSamples), samplingRateHz : {None}]
    /\ capture_start \in StartArgs
    /\ sampling_rate \in RateArgs
    /\ tbase = None

ChannelTimebase ==
    /\ tb_pc = "call"
    /\ tbase' = channel_timebase(channel, capture_start, sampling_rate)
    /\ tb_pc' = "done"
    /\ UNCHANGED <<channel, capture_start, sampling_rate>>
    /\ UNCHANGED <<varsBands, varsAssemble, varsSpectral, varsCombined, varsRate, varsArtifact,
                 varsPpg,
                 varsPulse,
                 varsSpo2,
                 varsSweep,
                 varsMapping,
                 varsRows>>

NextTimebase == ChannelTimebase

SpecTimebase == InitTimebase /\ [][NextTimebase]_vars

\* ------------------------------------------------------------ SpecAssemble
\* raw timestamp entries of the assembled channels
AsmRawEntries == {[valid |-> TRUE, t |-> 0], [valid |-> TRUE, t |-> 500],
                  [valid |-> FALSE, t |-> 0]}

\* a channel before its samples are filled in: label, sample count, timestamp
\* array (absent, or one entry per sample), rate override
ChannelShapes ==
    UNION {[label : {"TP9"}, n : {n}, timestamps : [1..n -> AsmRawEntries],
            samplingRateHz : {None}] : n \in 0..MaxChannelSamples}
    \cup UNION {[label : {"TP9"}, n : {n}, timestamps : {<<>>},
                 samplingRateHz : {None, Some(1)}] : n \in 0..MaxChannelSamples}
    \cup {[label |-> "AF7", n |-> 1, timestamps |-> <<>>, samplingRateHz |-> None]}

\* the channel after the first one brings at most one row
SecondChannelShapes == {x \in ChannelShapes : x.n <= 1}

ExportAttrs ==
    [capturedAt : {None, Some([valid |-> TRUE, t |-> 0]), Some([valid |-> TRUE, t |-> 250])},
     samplingRateHz : {None, Some(2)}]

FileNames == <<"a.json", "b.json">>

\* every sample value names its place: export e, channel c, sample i
MkChannel(shape, e, c) ==
    [label |-> shape.label, samples |-> [i \in 1..shape.n |-> 100 * e + 10 * c + i],
     timestamps |-> shape.timestamps, samplingRateHz |-> shape.samplingRateHz]

MkExport(e, attrs, shapes) ==
    [file |-> FileNames[e], capturedAt |-> attrs.capturedAt,
     samplingRateHz |-> attrs.samplingRateHz,
     channels |-> [c \in 1..Len(shapes) |-> MkChannel(shapes[c], e, c)]]

\* one export of one or two channels, or two exports of one channel each
InitAssemble ==
    /\ IdleBands
    /\ IdleTimebase
    /\ IdleSpectral
    /\ IdleCombined
    /\ IdleRate
    /\ IdleArtifact
    /\ IdlePpg
    /\ IdlePulse
    /\ IdleSpo2
    /\ IdleSweep
    /\ IdleMapping
    /\ IdleRows
    /\ asm_pc = "call"
    /\ \E a \in ExportAttrs, b \in ExportAttrs, x \in ChannelShapes,
          y \in SecondChannelShapes,
          form \in {"one", "two channels", "two exports"} :
          \/ /\ form = "one"
             /\ b = a
             /\ y = CHOOSE z \in SecondChannelShapes : TRUE
             /\ exports = <<MkExport(1, a, <<x>>)>>
          \/ /\ form = "two channels"
             /\ b = a
             /\ exports = <<MkExport(1, a, <<x, y>>)>>
          \/ /\ form = "two exports"
             /\ exports = <<MkExport(1, a, <<x>>), MkExport(2, b, <<y>>)>>
    /\ label = "TP9"
    /\ series = <<>>
    /\ discontinuities = <<>>

LoadLabelTimeseries ==
    /\ asm_pc = "call"
    /\ \E order \in SortOrders(resolved_rows(exports, label)) :
          LET out == load_label_timeseries(exports, label, order)
          IN  /\ series' = out
              /\ discontinuities' = load_label_discontinuities(out)
    /\ asm_pc' = "done"
    /\ UNCHANGED <<exports, label>>
    /\ UNCHANGED <<varsBands, varsTimebase, varsSpectral, varsCombined, varsRate, varsArtifact,
                 varsPpg,
                 varsPulse,
                 varsSpo2,
                 varsSweep,
                 varsMapping,
                 varsRows>>

NextAssemble == LoadLabelTimeseries

SpecAssemble == InitAssemble /\ [][NextAssemble]_vars

\* ------------------------------------------------------------ SpecSpectral
\* spacings of the timestamps of a recorded channel: the sample interval, a
\* slower stretch, an acquisition gap
Spacings == {500, 1000, 5000}

\* timestamps from 0 with the given successive differences
RECURSIVE Cumulative(_, _)
Cumulative(t, diffs) ==
    IF diffs = <<>> THEN <<t>> ELSE <<t>> \o Cumulative(t + Head(diffs), Tail(diffs))

\* 10 samples, 1 s apart, with a 10 s gap between index 4 and index 5
GapExample == Cumulative(0, <<1000, 1000, 1000, 1000, 10000, 1000, 1000, 1000, 1000>>)

RecordedChannel(instants) ==
    [label |-> "TP9", n |-> Len(instants),
     timestamps |-> [i \in 1..Len(instants) |-> [valid |-> TRUE, t |-> instants[i]]],
     samplingRateHz |-> None]

\* one export of one recorded channel at 2 Hz; a second export may bring one
\* more row at the first instant
InitSpectral ==
    /\ IdleBands
    /\ IdleTimebase
    /\ IdleCombined
    /\ IdleRate
    /\ IdleArtifact
    /\ IdlePpg
    /\ IdlePulse
    /\ IdleSpo2
    /\ IdleSweep
    /\ IdleMapping
    /\ IdleRows
    /\ asm_pc = "idle"
    /\ \E instants \in {Cumulative(0, d) : d \in SeqsUpTo(Spacings, MaxSeriesLen - 1)}
                       \cup {GapExample},
          second \in BOOLEAN :
          LET a == [capturedAt |-> None, samplingRateHz |-> Some(2)]
          IN  exports = IF second
                        THEN <<MkExport(1, a, <<RecordedChannel(instants)>>),
                               MkExport(2, a, <<RecordedChannel(<<0>>)>>)>>
                        ELSE <<MkExport(1, a, <<RecordedChannel(instants)>>)>>
    /\ label = "TP9"
    /\ series = <<>>
    /\ discontinuities = <<>>
    /\ sp_pc = "call"
    /\ sp_result = ""
    /\ spec_windows = <<>>
    /\ segments = <<>>

\* compute_band_power_timeseries_for_label(exports, label)
ComputeBandPowerTimeseriesForLabel ==
    /\ sp_pc = "call"
    /\ \E order \in SortOrders(resolved_rows(exports, label)) :
          LET out == load_label_timeseries(exports, label, order)
          IN  /\ series' = out
              /\ discontinuities' = load_label_discontinuities(out)
              /\ spec_windows' = band_power_windows_for_label(out)
              /\ sp_result' = band_power_result_for_label(out)
    /\ sp_pc' = "compute_band_power_timeseries_for_label"
    /\ UNCHANGED <<asm_pc, exports, label, segments>>
    /\ UNCHANGED <<varsBands, varsTimebase, varsCombined, varsRate, varsArtifact,
                 varsPpg,
                 varsPulse,
                 varsSpo2,
                 varsSweep,
                 varsMapping,
                 varsRows>>

\* plot_spectrograms_per_label(exports, nperseg=NPERSEG, noverlap=NOVERLAP), for the label
PlotSpectrogramsPerLabel ==
    /\ sp_pc = "call"
    /\ \E order \in SortOrders(resolved_rows(exports, label)) :
          LET out == load_label_timeseries(exports, label, order)
              segs == gap_segments(out, NPERSEG)
          IN  /\ series' = out
              /\ discontinuities' = load_label_discontinuities(out)
              /\ segments' = segs
              /\ spec_windows' = segment_windows(segs, NPERSEG, NOVERLAP)
    /\ sp_pc' = "plot_spectrograms_per_label"
    /\ UNCHANGED <<asm_pc, exports, label, sp_result>>
    /\ UNCHANGED <<varsBands, varsTimebase, varsCombined, varsRate, varsArtifact,
                 varsPpg,
                 varsPulse,
                 varsSpo2,
                 varsSweep,
                 varsMapping,
                 varsRows>>

NextSpectral == ComputeBandPowerTimeseriesForLabel \/ PlotSpectrogramsPerLabel

SpecSpectral == InitSpectral /\ [][NextSpectral]_vars

\* ------------------------------------------------------------ SpecCombined
\* the absolute band powers of one window
PowersOf(delta, theta, alpha, beta, gamma) ==
    [k \in BandKeys |-> CASE k = "delta" -> delta [] k = "theta" -> theta
                          [] k = "alpha" -> alpha [] k = "beta" -> beta [] OTHER -> gamma]

RowPowers == {PowersOf(0, 0, 0, 0, 0), PowersOf(10, 0, 0, 0, 0), PowersOf(30, 0, 0, 0, 0),
              PowersOf(30, 0, 10, 0, 0), PowersOf(0, 2, 0, 0, 6)}

\* the powers of the rows of the first table of two
FirstRowPowers == {PowersOf(0, 0, 0, 0, 0), PowersOf(10, 0, 0, 0, 0), PowersOf(0, 2, 0, 0, 6)}

\* the powers of the rows of a second table
SecondRowPowers == {PowersOf(0, 0, 0, 0, 0), PowersOf(30, 0, 0, 0, 0), PowersOf(30, 0, 10, 0, 0)}

\* the instant of the first sample of the series of a label
SeriesStarts == {0, 3}

\* the row compute_band_power_timeseries emits for window k with these band
\* powers: t_sec is the window centre, timestamp is the instant of the sample
\* at the centre (a series at 2 Hz starting at `start`), the artifact flags
\* are those of a window that was kept, relative is what band_powers derives
WindowRow(k, powers, start) ==
    LET total == SumSeq([j \in 1..Len(BANDS) |-> powers[BANDS[j].key]])
        centre == NPERSEG \div 2 + (k - 1) * step_samples
    IN  [t_sec |-> centre,
         timestamp |-> Some(start + to_timedelta_s(centre, 2)),
         amplitude_artifact |-> FALSE,
         line_noise_artifact |-> FALSE,
         abs |-> powers,
         rel |-> [key \in BandKeys |-> band_relative(powers[key], total)]]

\* the band-power tables of a label: a row for each window that was not
\* rejected as an artifact, at least one
TablesOf(powers, start) ==
    UNION {{[i \in 1..Cardinality(ws) |->
               WindowRow(SortAsc(Pick([j \in 1..MaxWindows |-> j], ws, 1))[i], p[i], start)] :
            p \in [1..Cardinality(ws) -> powers]} :
           ws \in (SUBSET (1..MaxWindows)) \ {{}}}

Tables == TablesOf(RowPowers, 0)

\* the tables of the first label of two
FirstTables == TablesOf(FirstRowPowers, 0)

\* the tables of the second label of two
SecondTables == UNION {TablesOf(SecondRowPowers, start) : start \in SeriesStarts}

\* the tables of a second and third label of three: the first window only
ShortTables ==
    {<<WindowRow(1, p, 0)>> : p \in {PowersOf(10, 0, 0, 0, 0), PowersOf(0, 2, 0, 0, 6)}}

\* 128 Hz, 256 Hz, and 0.75e-6 Hz to either side of 256 Hz
Hz(n) == n * RateStepsPerHz

Rates == {Hz(128), Hz(256) - 3, Hz(256), Hz(256) + 3}

\* the tables and rates compute_band_power_timeseries_for_label returned for
\* one, two or three labels
InitCombined ==
    /\ IdleBands
    /\ IdleTimebase
    /\ IdleAssemble
    /\ IdleSpectral
    /\ IdleRate
    /\ IdleArtifact
    /\ IdlePpg
    /\ IdlePulse
    /\ IdleSpo2
    /\ IdleSweep
    /\ IdleMapping
    /\ IdleRows
    /\ cb_pc = "computed"
    /\ \/ \E t1 \in Tables, f1 \in Rates :
             bp_list = <<t1>> /\ fs_values = <<f1>>
       \/ \E t1 \in FirstTables, t2 \in SecondTables, f2 \in Rates :
             bp_list = <<t1, t2>> /\ fs_values = <<Hz(256), f2>>
       \/ \E t1 \in Tables, t2 \in ShortTables, t3 \in ShortTables,
             f2 \in Rates, f3 \in Rates :
             bp_list = <<t1, t2, t3>> /\ fs_values = <<Hz(256), f2, f3>>
    /\ combined = [error |-> "", rows |-> <<>>, fs |-> 0, reported |-> {}]

ComputeBandPowerTimeseriesCombined ==
    /\ cb_pc = "computed"
    /\ combined' = combine_band_power(bp_list, fs_values)
    /\ cb_pc' = "done"
    /\ UNCHANGED <<bp_list, fs_values>>
    /\ UNCHANGED <<varsBands, varsTimebase, varsAssemble, varsSpectral, varsRate, varsArtifact,
                 varsPpg,
                 varsPulse,
                 varsSpo2,
                 varsSweep,
                 varsMapping,
                 varsRows>>

NextCombined == ComputeBandPowerTimeseriesCombined

SpecCombined == InitCombined /\ [][NextCombined]_vars

\* ---------------------------------------------------------------- SpecRate
\* what an export or a channel may hold as samplingRateHz: nothing, or a number
RateEntries == {None, Some(-2), Some(0), Some(1), Some(2)}

\* an export and one of its channels, the channel without a timestamp array
InitRate ==
    /\ IdleBands
    /\ IdleTimebase
    /\ IdleAssemble
    /\ IdleSpectral
    /\ IdleCombined
    /\ IdleArtifact
    /\ IdlePpg
    /\ IdlePulse
    /\ IdleSpo2
    /\ IdleSweep
    /\ IdleMapping
    /\ IdleRows
    /\ rate_pc = "call"
    /\ \E file_rate \in RateEntries, own_rate \in RateEntries, n \in 0..MaxSamples,
          captured \in {None, Some([valid |-> TRUE, t |-> 0]), Some([valid |-> TRUE, t |-> 250])} :
          /\ rate_export = [capturedAt |-> captured, samplingRateHz |-> file_rate]
          /\ rate_ch = [samples |-> [i \in 1..n |-> i], timestamps |-> <<>>,
                        samplingRateHz |-> own_rate]
    /\ rate_hz = None
    /\ rate_tbase = None

\* load_label_timeseries, for one channel of the label: capture_start,
\* file_sampling_rate, rate, tbase
ResolveChannelRate ==
    /\ rate_pc = "call"
    /\ rate_hz' = channel_sampling_rate_hz(rate_ch, export_file_sampling_rate(rate_export))
    /\ rate_tbase' = channel_timebase(rate_ch, export_capture_start(rate_export), rate_hz')
    /\ rate_pc' = "done"
    /\ UNCHANGED <<rate_export, rate_ch>>
    /\ UNCHANGED <<varsBands, varsTimebase, varsAssemble, varsSpectral, varsCombined, varsArtifact,
                 varsPpg,
                 varsPulse,
                 varsSpo2,
                 varsSweep,
                 varsMapping,
                 varsRows>>

NextRate == ResolveChannelRate

SpecRate == InitRate /\ [][NextRate]_vars

\* ------------------------------------------------------------ SpecArtifact
\* a flat signal of n samples, or one with a single excursion of height h
Signals ==
    UNION {{[i \in 1..n |-> 0]} \cup
           {[i \in 1..n |-> IF i = at THEN h ELSE 0] : at \in 1..n, h \in {1, 3}} :
           n \in 0..MaxArtifactSamples}

\* Welch line-noise ratios, in quarters
WelchRatios == {0, 2, 3}

InitArtifact ==
    /\ IdleBands
    /\ IdleTimebase
    /\ IdleAssemble
    /\ IdleSpectral
    /\ IdleCombined
    /\ IdleRate
    /\ IdlePpg
    /\ IdlePulse
    /\ IdleSpo2
    /\ IdleSweep
    /\ IdleMapping
    /\ IdleRows
    /\ art_pc = "call"
    /\ art_args \in [samples : Signals, fs : {1, 2},
                     window_sec : {0, 1, 2, 3, 8}, step_sec : {0, 1, 2, 4},
                     amplitude_range_threshold : {None, Some(0), Some(2)},
                     line_noise_ratio_threshold : {None, Some(2)}]
    /\ art_rows = <<>>

\* compute_artifact_metrics(**art_args); a window shorter than 8 samples has
\* no Welch estimate
ComputeArtifactMetrics ==
    /\ art_pc = "call"
    /\ \E welch_ratios \in [1..Len(artifact_window_starts(art_args)) ->
                               IF window_length(art_args.window_sec, art_args.fs)
                                      >= MIN_WELCH_SAMPLES
                               THEN WelchRatios ELSE {0}] :
          art_rows' = compute_artifact_metrics(art_args, welch_ratios)
    /\ art_pc' = "done"
    /\ UNCHANGED art_args
    /\ UNCHANGED <<varsBands, varsTimebase, varsAssemble, varsSpectral, varsCombined, varsRate,
                 varsPpg,
                 varsPulse,
                 varsSpo2,
                 varsSweep,
                 varsMapping,
                 varsRows>>

NextArtifact == ComputeArtifactMetrics

SpecArtifact == InitArtifact /\ [][NextArtifact]_vars

\* ----------------------------------------------------------------- SpecPpg
\* every short signal over three levels, the signals of 8 samples that
\* leave 0 at samples 1, 4 and 6 only, and signals of median 4 and MAD 4
\* (threshold 9) whose sample 1 is below, at and above the threshold
PpgSignals ==
    UNION {[1..n -> {0, 1, 2}] : n \in 0..MaxPpgSamples}
    \cup {<<0, a, 0, 0, b, 0, c, 0>> : a \in {0, 1, 2}, b \in {0, 1, 2}, c \in {0, 1, 2}}
    \cup {<<4, a, 4, 8, 0>> : a \in {8, 9, 10}}

\* find_ppg_peaks(samples, sample_rate_hz, min_spacing_sec), before its loop
InitPpg ==
    /\ IdleBands
    /\ IdleTimebase
    /\ IdleAssemble
    /\ IdleSpectral
    /\ IdleCombined
    /\ IdleRate
    /\ IdleArtifact
    /\ IdlePulse
    /\ IdleSpo2
    /\ IdleSweep
    /\ IdleMapping
    /\ IdleRows
    /\ ppg_args \in [samples : PpgSignals, sample_rate_hz : {1, 5, 8}, min_spacing_sec : {4}]
    /\ ppg_pc = "loop"
    /\ ppg_i = 1
    /\ peaks = <<>>
    /\ last_peak = NO_PEAK

\* one iteration of for i in range(1, len(samples) - 1)
FindPpgPeaksStep ==
    /\ ppg_pc = "loop"
    /\ Len(ppg_args.samples) >= 3
    /\ ppg_i < Len(ppg_args.samples) - 1
    /\ LET samples == ppg_args.samples
           v == samples[ppg_i + 1]
       IN  IF ~is_candidate(samples, ppg_i)
           THEN UNCHANGED <<peaks, last_peak>>
           ELSE IF spaced_enough(ppg_i, last_peak, ppg_min_spacing(ppg_args))
           THEN /\ peaks' = Append(peaks, ppg_i)
                /\ last_peak' = ppg_i
           ELSE IF peaks # <<>> /\ v > samples[peaks[Len(peaks)] + 1]
           THEN /\ peaks' = [peaks EXCEPT ![Len(peaks)] = ppg_i]
                /\ last_peak' = ppg_i
           ELSE UNCHANGED <<peaks, last_peak>>
    /\ ppg_i' = ppg_i + 1
    /\ UNCHANGED <<ppg_pc, ppg_args>>
    /\ UNCHANGED <<varsBands, varsTimebase, varsAssemble, varsSpectral, varsCombined, varsRate,
                   varsArtifact,
                 varsPulse,
                 varsSpo2,
                 varsSweep,
                 varsMapping,
                 varsRows>>

\* return [] for fewer than 3 samples, return peaks after the loop
FindPpgPeaksReturn ==
    /\ ppg_pc = "loop"
    /\ Len(ppg_args.samples) < 3 \/ ppg_i >= Len(ppg_args.samples) - 1
    /\ ppg_pc' = "done"
    /\ UNCHANGED <<ppg_args, ppg_i, peaks, last_peak>>
    /\ UNCHANGED <<varsBands, varsTimebase, varsAssemble, varsSpectral, varsCombined, varsRate,
                   varsArtifact,
                 varsPulse,
                 varsSpo2,
                 varsSweep,
                 varsMapping,
                 varsRows>>

NextPpg == FindPpgPeaksStep \/ FindPpgPeaksReturn

SpecPpg == InitPpg /\ [][NextPpg]_vars

\* --------------------------------------------------------------- SpecPulse
\* raw signals: of every length a constant one and one with a step
RawPulseSignals ==
    UNION {{[i \in 1..n |-> 3], [i \in 1..n |-> IF i = 1 THEN 4 ELSE 3]} : n \in 0..MaxPulseSamples}

\* compute_ppg_hr(samples, sample_rate_hz) or
\* build_ppg_cardiogram(samples, sample_rate_hz, beats), before the call
InitPulse ==
    /\ IdleBands
    /\ IdleTimebase
    /\ IdleAssemble
    /\ IdleSpectral
    /\ IdleCombined
    /\ IdleRate
    /\ IdleArtifact
    /\ IdlePpg
    /\ IdleSpo2
    /\ IdleSweep
    /\ IdleMapping
    /\ IdleRows
    /\ pulse_args \in [samples : RawPulseSignals, sample_rate_hz : {1, 2}, beats : {1, 2, 5}]
    /\ pulse_pc = "call"
    /\ pulse_filtered = <<>>
    /\ pulse_peaks = <<>>
    /\ hr = None
    /\ cardiogram = None

\* compute_ppg_hr
ComputePpgHr ==
    /\ pulse_pc = "call"
    /\ pulse_pc' = "hr"
    /\ IF too_short(pulse_args)
       THEN /\ hr' = None
            /\ UNCHANGED <<pulse_filtered, pulse_peaks>>
       ELSE \E filtered \in ppg_bandpass_detrend(pulse_args.samples) :
                /\ pulse_filtered' = filtered
                /\ pulse_peaks' = find_ppg_peaks(filtered, pulse_args.sample_rate_hz)
                /\ hr' = ppg_hr(pulse_args.sample_rate_hz, pulse_peaks')
    /\ UNCHANGED <<pulse_args, cardiogram>>
    /\ UNCHANGED <<varsBands, varsTimebase, varsAssemble, varsSpectral, varsCombined, varsRate,
                   varsArtifact, varsPpg,
                 varsSpo2,
                 varsSweep,
                 varsMapping,
                 varsRows>>

\* build_ppg_cardiogram
BuildPpgCardiogram ==
    /\ pulse_pc = "call"
    /\ pulse_pc' = "cardiogram"
    /\ IF too_short(pulse_args)
       THEN /\ cardiogram' = None
            /\ UNCHANGED <<pulse_filtered, pulse_peaks>>
       ELSE \E filtered \in ppg_bandpass_detrend(pulse_args.samples) :
                /\ pulse_filtered' = filtered
                /\ pulse_peaks' = find_ppg_peaks(filtered, pulse_args.sample_rate_hz)
                /\ cardiogram' = ppg_cardiogram(filtered, pulse_peaks', pulse_args.beats)
    /\ UNCHANGED <<pulse_args, hr>>
    /\ UNCHANGED <<varsBands, varsTimebase, varsAssemble, varsSpectral, varsCombined, varsRate,
                   varsArtifact, varsPpg,
                 varsSpo2,
                 varsSweep,
                 varsMapping,
                 varsRows>>

NextPulse == ComputePpgHr \/ BuildPpgCardiogram

SpecPulse == InitPulse /\ [][NextPulse]_vars

\* ---------------------------------------------------------------- SpecSpo2
\* windows: of every length zeros, a constant, and a pulse in the first sample
Spo2Windows ==
    UNION {{[i \in 1..n |-> 0], [i \in 1..n |-> 1], [i \in 1..n |-> IF i = 1 THEN 1 ELSE 0],
            [i \in 1..n |-> IF i % 2 = 1 THEN 1 ELSE 0]} : n \in 0..MaxSpo2Samples}

\* spo2_ratio_of_ratios(ir, red, sample_rate_hz), before the call
InitSpo2 ==
    /\ IdleBands
    /\ IdleTimebase
    /\ IdleAssemble
    /\ IdleSpectral
    /\ IdleCombined
    /\ IdleRate
    /\ IdleArtifact
    /\ IdlePpg
    /\ IdlePulse
    /\ IdleSweep
    /\ IdleMapping
    /\ IdleRows
    /\ spo2_args \in [ir : Spo2Windows, red : Spo2Windows, sample_rate_hz : {1}]
    /\ spo2_pc = "call"
    /\ spo2_locals = [ir_dc_mean |-> None, red_dc_mean |-> None,
                      ir_ac_amp |-> None, red_ac_amp |-> None]
    /\ spo2_result = [ok |-> FALSE]

\* spo2_ratio_of_ratios
Spo2RatioOfRatios ==
    /\ spo2_pc = "call"
    /\ spo2_pc' = "done"
    /\ LET n == IF Len(spo2_args.ir) < Len(spo2_args.red)
                THEN Len(spo2_args.ir) ELSE Len(spo2_args.red)
           ir == last_n(spo2_args.ir, n)
           red == last_n(spo2_args.red, n)
       IN  \E ir_dc_mean \in lowpass_dc_mean(ir), red_dc_mean \in lowpass_dc_mean(red),
              ir_ac_amp \in bandpass_ac_amp(ir), red_ac_amp \in bandpass_ac_amp(red) :
               LET dc == [ir |-> ir_dc_mean, red |-> red_dc_mean]
                   amp == [ir |-> ir_ac_amp, red |-> red_ac_amp]
               IN  /\ spo2_result' = spo2_ratio_of_ratios(spo2_args, dc, amp)
                   /\ spo2_locals' = spo2_locals_at_return(spo2_args, dc, amp)
    /\ UNCHANGED spo2_args
    /\ UNCHANGED <<varsBands, varsTimebase, varsAssemble, varsSpectral, varsCombined, varsRate,
                   varsArtifact, varsPpg, varsPulse,
                 varsSweep,
                 varsMapping,
                 varsRows>>

NextSpo2 == Spo2RatioOfRatios

SpecSpo2 == InitSpo2 /\ [][NextSpo2]_vars

\* --------------------------------------------------------------- SpecSweep
\* sorted(labels) of the four electrodes
SweepLabels == <<"AF7", "AF8", "TP10", "TP9">>

\* a sweep over some of the channels, before the call
InitSweep ==
    /\ IdleBands
    /\ IdleTimebase
    /\ IdleAssemble
    /\ IdleSpectral
    /\ IdleCombined
    /\ IdleRate
    /\ IdleArtifact
    /\ IdlePpg
    /\ IdlePulse
    /\ IdleSpo2
    /\ IdleMapping
    /\ IdleRows
    /\ \E chosen \in (SUBSET (1..Len(SweepLabels))) \ {{}} :
          sweep_labels = Pick(SweepLabels, chosen, 1)
    /\ sweep_samples \in [{sweep_labels[i] : i \in 1..Len(sweep_labels)}
                            -> {0, NPERSEG - 1, MaxSweepSamples}]
    /\ sweep_pc = "call"
    /\ sweep_done = <<>>
    /\ sweep_error = ""

\* compute_artifact_df(exports, diag_df), the series sampled at 2 Hz
ComputeArtifactDf ==
    /\ sweep_pc = "call"
    /\ sweep_pc' = "compute_artifact_df"
    /\ sweep_done' = artifact_df_labels(sweep_labels, sweep_samples, 2)
    /\ sweep_error' = ""
    /\ UNCHANGED <<sweep_labels, sweep_samples>>
    /\ UNCHANGED <<varsBands, varsTimebase, varsAssemble, varsSpectral, varsCombined, varsRate,
                   varsArtifact, varsPpg, varsPulse, varsSpo2,
                 varsMapping,
                 varsRows>>

\* plot_band_power_diagrams(exports, diag_df)
PlotBandPowerDiagrams ==
    /\ sweep_pc = "call"
    /\ sweep_pc' = "plot_band_power_diagrams"
    /\ LET out == band_power_sweep(band_power_groups(sweep_labels), sweep_samples, 1, <<>>)
       IN  /\ sweep_done' = out.done
           /\ sweep_error' = out.error
    /\ UNCHANGED <<sweep_labels, sweep_samples>>
    /\ UNCHANGED <<varsBands, varsTimebase, varsAssemble, varsSpectral, varsCombined, varsRate,
                   varsArtifact, varsPpg, varsPulse, varsSpo2,
                 varsMapping,
                 varsRows>>

NextSweep == ComputeArtifactDf \/ PlotBandPowerDiagrams

SpecSweep == InitSweep /\ [][NextSweep]_vars

\* ------------------------------------------------------------- SpecMapping
\* channel labels of PPG exports
PpgLabels == {Str_ambient, Str_infrared, Str_red, Str_green, Str_PPG1, Str_PPG2, Str_PPG3,
              <<"I", "R">>, <<"R", "e", "d">>}

\* infer_ppg_mapping(labels), the labels of the channels of an export, each once
InitMapping ==
    /\ IdleBands
    /\ IdleTimebase
    /\ IdleAssemble
    /\ IdleSpectral
    /\ IdleCombined
    /\ IdleRate
    /\ IdleArtifact
    /\ IdlePpg
    /\ IdlePulse
    /\ IdleSpo2
    /\ IdleSweep
    /\ IdleRows
    /\ map_labels \in UNION {[1..n -> PpgLabels] : n \in 0..MaxPpgChannels}
    /\ \A i, j \in 1..Len(map_labels) : i # j => map_labels[i] # map_labels[j]
    /\ map_pc = "call"
    /\ ppg_mapping = [ambient |-> None, infrared |-> None, red |-> None]

\* infer_ppg_mapping
InferPpgMapping ==
    /\ map_pc = "call"
    /\ map_pc' = "done"
    /\ ppg_mapping' = infer_ppg_mapping(map_labels)
    /\ UNCHANGED map_labels
    /\ UNCHANGED <<varsBands, varsTimebase, varsAssemble, varsSpectral, varsCombined, varsRate,
                   varsArtifact, varsPpg, varsPulse, varsSpo2, varsSweep,
                 varsRows>>

NextMapping == InferPpgMapping

SpecMapping == InitMapping /\ [][NextMapping]_vars

\* ---------------------------------------------------------------- SpecRows
\* a flat signal of n samples, or one with a single excursion
BandSignals ==
    UNION {{[i \in 1..n |-> 0]} \cup {[i \in 1..n |-> IF i = at THEN 3 ELSE 0] : at \in 1..n} :
           n \in 0..MaxBandSamples}

\* compute_band_power_timeseries(samples, fs, step_samples, reject_artifacts, ...),
\* before the call
InitRows ==
    /\ IdleBands
    /\ IdleTimebase
    /\ IdleAssemble
    /\ IdleSpectral
    /\ IdleCombined
    /\ IdleRate
    /\ IdleArtifact
    /\ IdlePpg
    /\ IdlePulse
    /\ IdleSpo2
    /\ IdleSweep
    /\ IdleMapping
    /\ bpt_args \in [samples : BandSignals,
                     step_samples : {None, Some(1), Some(3), Some(4), Some(5)},
                     reject_artifacts : BOOLEAN,
                     amplitude_range_threshold : {None, Some(2)},
                     line_noise_ratio_threshold : {None, Some(2)}]
    /\ bpt_pc = "call"
    /\ bpt_ratios = <<>>
    /\ bpt_rows = <<>>

\* compute_band_power_timeseries; the ratios are drawn where a threshold reads them
ComputeBandPowerTimeseries ==
    /\ bpt_pc = "call"
    /\ bpt_pc' = "done"
    /\ LET starts == window_starts(Len(bpt_args.samples), NPERSEG, band_power_step(bpt_args))
       IN  \E welch_ratios \in [1..Len(starts) ->
                                  IF bpt_args.line_noise_ratio_threshold = None
                                  THEN {0} ELSE {0, 3}] :
               /\ bpt_ratios' = welch_ratios
               /\ bpt_rows' = compute_band_power_timeseries(bpt_args, welch_ratios)
    /\ UNCHANGED bpt_args
    /\ UNCHANGED <<varsBands, varsTimebase, varsAssemble, varsSpectral, varsCombined, varsRate,
                   varsArtifact, varsPpg, varsPulse, varsSpo2, varsSweep, varsMapping>>

NextRows == ComputeBandPowerTimeseries

SpecRows == InitRows /\ [][NextRows]_vars

\* --------------------------------------------------------------- SpecBands
\* bin frequencies the grids are drawn from: below, on and above every band edge
FreqPoints == {0, 1, 7, 8, 9, 16, 24, 59, 60, 99, 100, 101}

FreqGrids ==
    UNION {{g \in [1..n -> FreqPoints] : \A i \in 1..(n - 1) : g[i] < g[i + 1]} :
           n \in 0..MaxBins}

InitBands ==
    /\ IdleTimebase
    /\ IdleAssemble
    /\ IdleSpectral
    /\ IdleCombined
    /\ IdleRate
    /\ IdleArtifact
    /\ IdlePpg
    /\ IdlePulse
    /\ IdleSpo2
    /\ IdleSweep
    /\ IdleMapping
    /\ IdleRows
    /\ bp_pc = "call"
    /\ freqs \in FreqGrids
    /\ psd \in [1..Len(freqs) -> 0..MaxPsd]
    /\ bp_mask = [k \in BandKeys |-> {}]
    /\ bp_totals = [k \in BandKeys |-> [absolute |-> 0, relative |-> [num |-> 0, den |-> 1]]]

BandPowers ==
    /\ bp_pc = "call"
    /\ bp_mask' = [k \in BandKeys |->
                    band_mask(freqs, CHOOSE b \in {BANDS[j] : j \in 1..Len(BANDS)} : b.key = k)]
    /\ bp_totals' = band_powers(freqs, psd)
    /\ bp_pc' = "done"
    /\ UNCHANGED <<freqs, psd>>
    /\ UNCHANGED <<varsTimebase, varsAssemble, varsSpectral, varsCombined, varsRate, varsArtifact,
                 varsPpg,
                 varsPulse,
                 varsSpo2,
                 varsSweep,
                 varsMapping,
                 varsRows>>

NextBands == BandPowers

SpecBands == InitBands /\ [][NextBands]_vars

\* ------------------------------------------------------------------ claims
BandAbsSum == SumSeq([b \in 1..Len(BANDS) |-> bp_totals[BANDS[b].key].absolute])
BandRelSum == RatSum([b \in 1..Len(BANDS) |-> bp_totals[BANDS[b].key].relative])

\* C4: for a non-negative PSD the relative powers returned by band_powers sum
\* to 1 when the sum of the absolute band powers is positive, are all 0 when
\* that sum is 0, and no relative power is a division by zero.
C4_RelativeSumsToOne ==
    bp_pc = "done" =>
        /\ \A k \in BandKeys : bp_totals[k].relative.den # 0
        /\ BandAbsSum > 0 =>
              /\ \A k \in BandKeys : bp_totals[k].relative.den > 0
              /\ BandRelSum = [num |-> 1, den |-> 1]
        /\ BandAbsSum = 0 => \A k \in BandKeys : bp_totals[k].relative.num = 0

\* two bands hold power, so the relative powers are proper fractions
C4_Witness ==
    /\ bp_pc = "done"
    /\ Cardinality({k \in BandKeys : bp_totals[k].absolute > 0}) >= 2

\* the bins of the analysis range [0.5, 50) Hz
AnalysisBins == {i \in 1..Len(freqs) : freqs[i] >= 1 /\ freqs[i] < 100}

\* C5 (as claimed): the sum of the five absolute band powers equals the
\* trapezoidal integral of the PSD over all bins in [0.5, 50) Hz.
C5_BandCompleteness ==
    bp_pc = "done" =>
        BandAbsSum = trapezoid(Pick(psd, AnalysisBins, 1), Pick(freqs, AnalysisBins, 1))

BandsOfBin(i) == {k \in BandKeys : i \in bp_mask[k]}

\* C6: band_powers puts every bin with 0.5 <= f < 50 in exactly one band, a
\* bin on a band edge (4, 8, 12, 30 Hz) in the upper band only, and a bin
\* with f < 0.5 or f >= 50 in no band.
C6_BandsPartition ==
    bp_pc = "done" =>
        \A i \in 1..Len(freqs) :
            /\ i \in AnalysisBins => Cardinality(BandsOfBin(i)) = 1
            /\ i \notin AnalysisBins => BandsOfBin(i) = {}
            /\ freqs[i] = 8 => BandsOfBin(i) = {"theta"}
            /\ freqs[i] = 16 => BandsOfBin(i) = {"alpha"}
            /\ freqs[i] = 24 => BandsOfBin(i) = {"beta"}
            /\ freqs[i] = 60 => BandsOfBin(i) = {"gamma"}

\* a grid with a bin on an inner band edge, one at 50 Hz and one inside a band
C6_Witness ==
    /\ bp_pc = "done"
    /\ \E i \in 1..Len(freqs) : freqs[i] \in {8, 16, 24, 60}
    /\ \E i \in 1..Len(freqs) : freqs[i] = 100
    /\ \E i \in 1..Len(freqs) : freqs[i] \in {7, 9, 59, 99}

\* the timestamp array of the channel is usable: non-empty, one entry per
\* sample, at least one entry well-formed
UsableTimestamps ==
    /\ Len(channel.timestamps) > 0
    /\ Len(channel.timestamps) = Len(channel.samples)
    /\ \E i \in 1..Len(channel.timestamps) : channel.timestamps[i].valid

\* a timebase can be synthesized: capture start, positive rate, a sample
CanSynthesize ==
    /\ capture_start # None
    /\ sampling_rate # None
    /\ sampling_rate # Some(0)
    /\ Val(sampling_rate) > 0
    /\ Len(channel.samples) >= 1

Abs(x) == IF x < 0 THEN -x ELSE x

\* C7: a synthesized timebase has one timestamp per sample and the i-th one
\* is capture_start + i/rate seconds (the nearest clock tick to it, and
\* exactly it when i/rate is a whole number of ticks); 4 samples at 2 Hz from
\* T0 give T0, T0+0.5s, T0+1.0s, T0+1.5s.
C7_SynthesizedTimebase ==
    (tb_pc = "done" /\ ~UsableTimestamps /\ CanSynthesize) =>
        /\ tbase # None
        /\ Len(Val(tbase)) = Len(channel.samples)
        /\ \A i \in 1..Len(channel.samples) :
              /\ Val(tbase)[i] # NaT
              /\ LET rate == Val(sampling_rate)
                     d == (Val(Val(tbase)[i]) - Val(capture_start)) * rate
                            - (i - 1) * TicksPerSec
                 IN  /\ 2 * Abs(d) <= rate
                     /\ ((i - 1) * TicksPerSec) % rate = 0 => d = 0
        /\ (Len(channel.samples) = 4 /\ sampling_rate = Some(2)) =>
              LET T0 == Val(capture_start)
                  half == TicksPerSec \div 2
              IN  Val(tbase) = <<Some(T0), Some(T0 + half), Some(T0 + 2 * half),
                                 Some(T0 + 3 * half)>>

\* 4 samples at 2 Hz from a capture start, no timestamp array
C7_Witness ==
    /\ tb_pc = "done"
    /\ channel.timestamps = <<>>
    /\ Len(channel.samples) = 4
    /\ sampling_rate = Some(2)
    /\ capture_start = Some(250)
    /\ tbase = Some(<<Some(250), Some(750), Some(1250), Some(1750)>>)

\* C8: channel_timebase returns the parsed timestamps iff the array is usable
\* (also when a capture start is there), else the synthesized timebase iff
\* one can be synthesized, else None.
C8_TimebasePrecedence ==
    tb_pc = "done" =>
        /\ UsableTimestamps =>
              tbase = Some([i \in 1..Len(channel.timestamps) |->
                              IF channel.timestamps[i].valid
                              THEN Some(channel.timestamps[i].t) ELSE NaT])
        /\ (~UsableTimestamps /\ CanSynthesize) =>
              /\ tbase # None
              /\ Len(Val(tbase)) = Len(channel.samples)
              /\ \A i \in 1..Len(channel.samples) : Val(tbase)[i] # NaT
              /\ Val(tbase)[1] = capture_start
        /\ (~UsableTimestamps /\ ~CanSynthesize) => tbase = None

\* a usable timestamp array wins over an available capture start and rate
C8_Witness ==
    /\ tb_pc = "done"
    /\ UsableTimestamps
    /\ CanSynthesize
    /\ \E i \in 1..Len(channel.timestamps) : ~channel.timestamps[i].valid
    /\ tbase # None
    /\ Val(tbase)[1] # capture_start

\* the successive timestamp differences of the assembled series that are positive
SeriesPositiveDiffs ==
    LET d == [i \in 1..(Len(series) - 1) |-> series[i + 1].timestamp - series[i].timestamp]
    IN  Pick(d, {i \in 1..Len(d) : d[i] > 0}, 1)

\* C2: the series returned by load_label_timeseries has non-decreasing
\* timestamps, no two rows with the same (timestamp, file), and when two
\* files contribute a row at the same timestamp it keeps a row of each.
C2_SeriesOrderedDeduplicated ==
    asm_pc = "done" =>
        /\ \A i \in 1..(Len(series) - 1) : series[i].timestamp <= series[i + 1].timestamp
        /\ \A i, j \in 1..Len(series) :
              (i < j) => ~(/\ series[i].timestamp = series[j].timestamp
                           /\ series[i].file = series[j].file)
        /\ LET rows == resolved_rows(exports, label)
           IN  \A a, b \in 1..Len(rows) :
                  (rows[a].timestamp = rows[b].timestamp /\ rows[a].file # rows[b].file) =>
                      \A r \in {rows[a], rows[b]} :
                          \E i \in 1..Len(series) : /\ series[i].timestamp = r.timestamp
                                                    /\ series[i].file = r.file

\* two files share a timestamp, and one file brought a duplicate that was dropped
C2_Witness ==
    /\ asm_pc = "done"
    /\ \E i, j \in 1..Len(series) : /\ series[i].timestamp = series[j].timestamp
                                    /\ series[i].file # series[j].file
    /\ Len(series) < Len(resolved_rows(exports, label))
    /\ \E i \in 1..(Len(series) - 1) : series[i].timestamp < series[i + 1].timestamp

\* C10 (as claimed): load_label_timeseries reports a gap between two
\* consecutive rows exactly when their timestamp difference exceeds twice the
\* median of the positive successive differences of the series.
C10_DiscontinuityByMedian ==
    (asm_pc = "done" /\ SeriesPositiveDiffs # <<>>) =>
        \A i \in 2..Len(series) :
            (\E g \in 1..Len(discontinuities) :
                /\ discontinuities[g].start_ts = series[i - 1].timestamp
                /\ discontinuities[g].end_ts = series[i].timestamp)
            <=> (series[i].timestamp - series[i - 1].timestamp > TwiceMedian(SeriesPositiveDiffs))

\* a gap by the segmentation rule: the difference to the row before exceeds
\* twice the median of the positive successive differences; i counts rows from 0
GapBefore(i) ==
    /\ SeriesPositiveDiffs # <<>>
    /\ series[i + 1].timestamp - series[i].timestamp > TwiceMedian(SeriesPositiveDiffs)

\* C1 (as claimed): no spectral window of the band-power computation for a
\* label spans a sampling discontinuity: every window handed to the
\* spectrogram lies inside one gap-free segment of the merged series.
C1_NoWindowAcrossGap ==
    sp_pc = "compute_band_power_timeseries_for_label" =>
        \A w \in 1..Len(spec_windows) :
            \A i \in (spec_windows[w].start + 1)..(spec_windows[w].stop - 1) : ~GapBefore(i)

\* C9: the gap segmentation done before the spectrograms starts a new segment
\* at index i exactly when timestamp[i] - timestamp[i-1] exceeds twice the
\* median of the positive successive differences; the segments are non-empty,
\* contiguous, disjoint and cover the series in order; 10 samples 1 s apart
\* with a 10 s gap between index 4 and 5 give the segments [0..4] and [5..9].
C9_GapSegmentation ==
    (sp_pc = "plot_spectrograms_per_label" /\ Len(series) >= NPERSEG) =>
        /\ segments # <<>>
        /\ segments[1].start = 0
        /\ segments[Len(segments)].stop = Len(series)
        /\ \A g \in 1..Len(segments) : segments[g].start < segments[g].stop
        /\ \A g \in 1..(Len(segments) - 1) : segments[g].stop = segments[g + 1].start
        /\ \A i \in 1..(Len(series) - 1) :
              (\E g \in 1..Len(segments) : segments[g].start = i) <=> GapBefore(i)
        /\ [i \in 1..Len(series) |-> series[i].timestamp] = GapExample =>
              segments = <<[start |-> 0, stop |-> 5], [start |-> 5, stop |-> 10]>>

\* the 10-sample example, split in two
C9_Witness ==
    /\ sp_pc = "plot_spectrograms_per_label"
    /\ [i \in 1..Len(series) |-> series[i].timestamp] = GapExample
    /\ segments = <<[start |-> 0, stop |-> 5], [start |-> 5, stop |-> 10]>>

\* the sum of the combined absolute powers of the five bands of a row
RowDenom(row) == RatSum([j \in 1..Len(BANDS) |-> row.abs[BANDS[j].key]])

\* C3: with two or more labels, the relative power of every band of every
\* combined row is the row's combined absolute power of the band divided by
\* the sum of the combined absolute powers of the five bands, and 0 for every
\* band when that sum is 0; absolute delta 10 and 30 with all other bands 0
\* give relative delta 1.
C3_RelativeFromCombinedAbsolute ==
    (cb_pc = "done" /\ Len(bp_list) >= 2 /\ combined.error = "") =>
        \A i \in 1..Len(combined.rows) :
            LET row == combined.rows[i]
                denom == RowDenom(row)
            IN  \A k \in BandKeys :
                    /\ row.rel[k].den > 0
                    /\ denom.num > 0 =>
                          row.rel[k].num * row.abs[k].den * denom.num
                              = row.abs[k].num * denom.den * row.rel[k].den
                    /\ denom.num = 0 => row.rel[k].num = 0

\* two labels, one window: absolute delta 10 and 30, every other band 0,
\* combine to absolute delta 20 and relative delta 1
C3_Witness ==
    /\ cb_pc = "done"
    /\ Len(bp_list) = 2
    /\ \E i \in 1..Len(bp_list[1]), j \in 1..Len(bp_list[2]) :
          /\ bp_list[1][i].t_sec = bp_list[2][j].t_sec
          /\ bp_list[1][i].abs = PowersOf(10, 0, 0, 0, 0)
          /\ bp_list[2][j].abs = PowersOf(30, 0, 0, 0, 0)
          /\ \E r \in 1..Len(combined.rows) :
                /\ combined.rows[r].t_sec = bp_list[1][i].t_sec
                /\ combined.rows[r].abs["delta"] = [num |-> 20, den |-> 1]
                /\ combined.rows[r].rel["delta"] = [num |-> 1, den |-> 1]

\* C11 (as claimed): among the resolved rows that share a (timestamp, file)
\* pair, the row load_label_timeseries retains is the one that came first in
\* the concatenation order (export, then channel, then sample).
C11_StableKeepFirst ==
    asm_pc = "done" =>
        LET rows == resolved_rows(exports, label)
        IN  \A i \in 1..Len(series) :
                \A a \in 1..Len(rows) :
                    (rows[a].timestamp = series[i].timestamp /\ rows[a].file = series[i].file) =>
                        \E b \in 1..a : /\ rows[b].sample = series[i].sample
                                        /\ rows[b].timestamp = series[i].timestamp
                                        /\ rows[b].file = series[i].file

\* the rows of the label's frames whose timestamp did not resolve
UnresolvedSamples ==
    LET rows == concat_frames(exports, label)
    IN  {rows[i].sample : i \in {j \in 1..Len(rows) : rows[j].timestamp = NaT}}

\* C12: in the series load_label_timeseries returns, t_sec of every row is its
\* timestamp minus the first retained timestamp, which is the earliest
\* resolved one, so t_sec starts at 0 and never decreases; no row whose
\* timestamp did not resolve appears; when no row resolves the series is
\* empty; every row has the fixed columns.
C12_TSecFromFirstRetained ==
    asm_pc = "done" =>
        LET rows == resolved_rows(exports, label)
        IN  /\ (rows = <<>>) <=> (series = <<>>)
            /\ \A i \in 1..Len(series) :
                  /\ series[i].t_sec = series[i].timestamp - series[1].timestamp
                  /\ series[i].sample \notin UnresolvedSamples
                  /\ DOMAIN series[i] = {"timestamp", "sample", "file", "label",
                                         "sampling_rate_hz", "t_sec"}
            /\ series # <<>> =>
                  /\ series[1].t_sec = 0
                  /\ \A a \in 1..Len(rows) : series[1].timestamp <= rows[a].timestamp
            /\ \A i \in 1..(Len(series) - 1) : series[i].t_sec <= series[i + 1].t_sec

\* a series that does not start at the epoch, with a later row, after an
\* unresolved row and a duplicate were dropped
C12_Witness ==
    /\ asm_pc = "done"
    /\ Len(series) >= 2
    /\ series[1].timestamp > 0
    /\ series[Len(series)].t_sec > 0
    /\ UnresolvedSamples # {}
    /\ Len(series) < Len(resolved_rows(exports, label))

\* the first of the channel-level, file-level and default rates that is a
\* positive number
FirstPositiveRate ==
    LET positive(x) == x # None /\ Val(x) > 0
    IN  IF positive(rate_ch.samplingRateHz) THEN rate_ch.samplingRateHz
        ELSE IF positive(rate_export.samplingRateHz) THEN rate_export.samplingRateHz
        ELSE Some(DEFAULT_FS)

\* C13 (as claimed): the rate load_label_timeseries resolves a channel's
\* timebase with is the channel-level samplingRateHz if present, else the
\* file-level one if present, else 256 Hz, and it is never absent or
\* non-positive, the default being a positive number.
C13_RatePrecedence ==
    rate_pc = "done" =>
        /\ rate_hz # None
        /\ Val(rate_hz) > 0
        /\ rate_hz = FirstPositiveRate

\* C14 (as claimed): compute_band_power_timeseries_combined raises, reporting
\* the distinct rates and returning no table, whenever any two member rates
\* differ by more than 1e-6, and passes the rate check only when all member
\* rates agree within 1e-6.
C14_MismatchedRatesFail ==
    cb_pc = "done" =>
        /\ (combined.error = "ValueError: Mismatched sampling rates")
              <=> (\E i, j \in 1..Len(fs_values) : fs_values[i] - fs_values[j] > RATE_TOLERANCE)
        /\ (combined.error = "ValueError: Mismatched sampling rates") =>
              /\ combined.rows = <<>>
              /\ combined.reported = {fs_values[i] : i \in 1..Len(fs_values)}

\* the bin a row of a band-power table falls in: round(t_sec / step_sec)
BinOfRow(r) == RoundDiv(r.t_sec, NPERSEG \div 2)

\* the bins in which every member table has a row
SharedBins ==
    {b \in 1..(MaxWindows + 1) :
        \A f \in 1..Len(bp_list) : \E i \in 1..Len(bp_list[f]) : BinOfRow(bp_list[f][i]) = b}

\* the sum over the member tables of the mean absolute power of a band over
\* the rows each table has in a bin
SumOfBinMeans(b, key) ==
    RatSum([f \in 1..Len(bp_list) |->
        LET at == {i \in 1..Len(bp_list[f]) : BinOfRow(bp_list[f][i]) = b}
        IN  Rat(SumSeq([i \in 1..Cardinality(at) |->
                          Pick(bp_list[f], at, 1)[i].abs[key]]), Cardinality(at))])

\* C15: with two or more labels of agreeing rates, the output bins are
\* exactly the bins every member table has, each once and in ascending
\* order, the absolute power of a band in a bin is the mean over the tables
\* of each table's mean in that bin, and when no bin is shared the call
\* raises instead of returning rows.
C15_BinsIntersected ==
    (cb_pc = "done" /\ Len(bp_list) >= 2
        /\ combined.error # "ValueError: Mismatched sampling rates") =>
        /\ (SharedBins = {}) <=> (combined.error = "ValueError: No overlapping time bins")
        /\ SharedBins = {} => combined.rows = <<>>
        /\ SharedBins # {} =>
              /\ combined.error = ""
              /\ {BinOfRow(combined.rows[i]) : i \in 1..Len(combined.rows)} = SharedBins
              /\ Len(combined.rows) = Cardinality(SharedBins)
              /\ \A i \in 1..(Len(combined.rows) - 1) :
                    combined.rows[i].t_sec < combined.rows[i + 1].t_sec
              /\ \A i \in 1..Len(combined.rows) : \A k \in BandKeys :
                    LET total == SumOfBinMeans(BinOfRow(combined.rows[i]), k)
                        got == combined.rows[i].abs[k]
                    IN  got.num * total.den * Len(bp_list) = total.num * got.den

\* two tables, the first with a bin the second lacks: only the shared bin
\* comes out, with the mean of unequal powers
C15_Witness ==
    /\ cb_pc = "done"
    /\ Len(bp_list) = 2
    /\ combined.error = ""
    /\ Len(bp_list[1]) = 2
    /\ Len(bp_list[2]) = 1
    /\ Len(combined.rows) = 1
    /\ BinOfRow(combined.rows[1]) = BinOfRow(bp_list[1][2])
    /\ bp_list[1][2].abs["delta"] = 10
    /\ bp_list[2][1].abs["delta"] = 30
    /\ combined.rows[1].abs["delta"] = [num |-> 20, den |-> 1]

\* the sum over the member tables of the timestamp each has in a bin
SumOfBinTimestamps(b) ==
    SumSeq([f \in 1..Len(bp_list) |->
        LET at == CHOOSE i \in 1..Len(bp_list[f]) : BinOfRow(bp_list[f][i]) = b
        IN  Val(bp_list[f][at].timestamp)])

C17_SingleLabelPassthrough ==
    (cb_pc = "done" /\ Len(bp_list) = 1) =>
        /\ combined.error = ""
        /\ combined.fs = fs_values[1]
        /\ Len(combined.rows) = Len(bp_list[1])
        /\ \A i \in 1..Len(combined.rows) :
              LET got == combined.rows[i]
                  given == bp_list[1][i]
              IN  /\ DOMAIN got = DOMAIN given
                  /\ got.t_sec = given.t_sec
                  /\ got.timestamp = given.timestamp
                  /\ got.amplitude_artifact = given.amplitude_artifact
                  /\ got.line_noise_artifact = given.line_noise_artifact
                  /\ got.rel = given.rel
                  /\ \A k \in BandKeys : got.abs[k] = [num |-> given.abs[k], den |-> 1]

\* one label at 128 Hz whose table lacks its first window and has a row without power
C17_Witness ==
    /\ cb_pc = "done"
    /\ Len(bp_list) = 1
    /\ fs_values[1] = Hz(128)
    /\ combined.fs = Hz(128)
    /\ Len(combined.rows) = 1
    /\ combined.rows[1].t_sec > NPERSEG \div 2
    /\ \A k \in BandKeys : bp_list[1][1].abs[k] = 0

\* C18: in every row of compute_artifact_metrics, amplitude_artifact is true
\* iff an amplitude threshold is set and amplitude_range exceeds it,
\* line_noise_artifact is true iff a line-noise threshold is set and
\* line_noise_ratio exceeds it, artifact is their OR; with a threshold of
\* None the flag is false in every row and a NaN ratio never sets the flag.
C18_ArtifactFlags ==
    art_pc = "done" =>
        \A i \in 1..Len(art_rows) :
            LET row == art_rows[i]
                amp == art_args.amplitude_range_threshold
                noise == art_args.line_noise_ratio_threshold
            IN  /\ row.amplitude_artifact
                      <=> (amp # None /\ row.amplitude_range > Val(amp))
                /\ row.line_noise_artifact
                      <=> (/\ noise # None
                           /\ row.line_noise_ratio # NaN
                           /\ Val(row.line_noise_ratio) > Val(noise))
                /\ row.artifact <=> (row.amplitude_artifact \/ row.line_noise_artifact)
                /\ amp = None => ~row.amplitude_artifact
                /\ noise = None => ~row.line_noise_artifact
                /\ row.line_noise_ratio = NaN => ~row.line_noise_artifact

\* both thresholds set: a row flagged for line noise alone, and a row whose
\* ratio and range sit on their thresholds and is not flagged
C18_Witness ==
    /\ art_pc = "done"
    /\ art_args.amplitude_range_threshold = Some(0)
    /\ art_args.line_noise_ratio_threshold = Some(2)
    /\ \E i, j \in 1..Len(art_rows) :
          /\ art_rows[i].line_noise_artifact
          /\ ~art_rows[i].amplitude_artifact
          /\ art_rows[i].artifact
          /\ art_rows[j].line_noise_ratio = Some(2)
          /\ art_rows[j].amplitude_range = 0
          /\ ~art_rows[j].artifact

\* window and step of compute_artifact_metrics in samples: at least 1, else
\* the seconds times the rate, rounded
ArtifactWindow ==
    IF RoundDiv(art_args.window_sec * art_args.fs, 2) < 1 THEN 1
    ELSE RoundDiv(art_args.window_sec * art_args.fs, 2)

ArtifactStep ==
    IF RoundDiv(art_args.step_sec * art_args.fs, 2) < 1 THEN 1
    ELSE RoundDiv(art_args.step_sec * art_args.fs, 2)

\* the largest minus the smallest of samples [from, to), counted from 0
RangeOfSamples(from, to) ==
    LET vals == {art_args.samples[i] : i \in (from + 1)..to}
    IN  CHOOSE d \in 0..3 : \E hi \in vals, lo \in vals :
            /\ d = hi - lo
            /\ \A v \in vals : lo <= v /\ v <= hi

\* C19: compute_artifact_metrics emits only full windows: no row when there
\* are fewer samples than the window length w, else floor((n - w) / s) + 1
\* rows, the k-th over samples [k*s, k*s + w) with k*s + w <= n.
C19_FullWindowsOnly ==
    art_pc = "done" =>
        LET n == Len(art_args.samples)
            w == ArtifactWindow
            st == ArtifactStep
        IN  /\ n < w => art_rows = <<>>
            /\ n >= w =>
                  /\ Len(art_rows) = (n - w) \div st + 1
                  /\ \A k \in 0..(Len(art_rows) - 1) :
                        /\ k * st + w <= n
                        /\ art_rows[k + 1].t_sec.num * art_args.fs
                              = (k * st + w) * art_rows[k + 1].t_sec.den
                        /\ art_rows[k + 1].amplitude_range = RangeOfSamples(k * st, k * st + w)

\* two or more windows of several samples that leave a tail no window covers,
\* the excursion of the signal being in that tail
C19_Witness ==
    /\ art_pc = "done"
    /\ Len(art_rows) >= 2
    /\ ArtifactWindow >= 2
    /\ (Len(art_args.samples) - ArtifactWindow) % ArtifactStep # 0
    /\ art_args.samples[Len(art_args.samples)] = 3
    /\ \A i \in 1..Len(art_rows) : art_rows[i].amplitude_range = 0

\* C20: the peaks of find_ppg_peaks are strictly increasing sample indices
\* and two consecutive peaks are at least min_spacing =
\* max(1, round(fs * min_spacing_sec)) samples apart, at the return and after
\* every iteration, a replaced last peak included.
C20_PeaksSpaced ==
    ppg_pc \in {"loop", "done"} =>
        LET ms == IF RoundDiv(ppg_args.sample_rate_hz * ppg_args.min_spacing_sec, 10) < 1
                  THEN 1
                  ELSE RoundDiv(ppg_args.sample_rate_hz * ppg_args.min_spacing_sec, 10)
        IN  \A k \in 1..(Len(peaks) - 1) :
                /\ peaks[k] < peaks[k + 1]
                /\ peaks[k + 1] - peaks[k] >= ms

\* two peaks at the return, the last one not at the index it was first
\* accepted at: it was replaced by a later, higher candidate within the spacing
C20_Witness ==
    /\ ppg_pc = "done"
    /\ Len(peaks) = 2
    /\ ppg_args.sample_rate_hz = 8
    /\ \E first \in (peaks[1] + 3)..(peaks[2] - 1) :
          /\ is_candidate(ppg_args.samples, first)
          /\ ppg_args.samples[first + 1] < ppg_args.samples[peaks[2] + 1]
          /\ peaks[2] - first < 3

\* the sample v exceeds median + 1.25 * MAD of the signal s, 1e-6 standing
\* for a zero MAD (whole-number samples; the comparison carried times 16)
ExceedsPpgThreshold(v, s) ==
    LET median2 == TwiceMedian(s)
        mad4 == TwiceMedian([j \in 1..Len(s) |-> Abs(2 * s[j] - median2)])
    IN  IF mad4 = 0 THEN 2 * v > median2
        ELSE 16 * v > 8 * median2 + 5 * mad4

\* C21: every index find_ppg_peaks holds or returns is a sample that exceeds
\* the threshold median + 1.25 * MAD and is strictly greater than both of
\* its neighbours; the first and the last sample are never returned.
C21_PeaksAboveThreshold ==
    ppg_pc \in {"loop", "done"} =>
        \A k \in 1..Len(peaks) :
            LET i == peaks[k]
                s == ppg_args.samples
            IN  /\ i >= 1
                /\ i <= Len(s) - 2
                /\ ExceedsPpgThreshold(s[i + 1], s)
                /\ s[i + 1] > s[i]
                /\ s[i + 1] > s[i + 2]

\* C22: compute_ppg_hr returns either no estimate or a whole rate within
\* [35, 220] bpm, never 0; it returns no estimate when the signal has fewer
\* than 3 * fs samples, when the signal is constant, when fewer than 2 peaks
\* are detected and when 60 * fs / median(inter-peak interval) is outside
\* [35, 220]; otherwise it returns that rate, rounded.
C22_HrNoneOrInRange ==
    pulse_pc = "hr" =>
        LET fs == pulse_args.sample_rate_hz
            n == Len(pulse_args.samples)
            intervals == [k \in 1..(Len(pulse_peaks) - 1) |-> pulse_peaks[k + 1] - pulse_peaks[k]]
            \* bpm = 120 * fs / median2
            median2 == TwiceMedian(intervals)
            estimate == n >= 3 * fs /\ Len(pulse_peaks) >= 2
                        /\ 120 * fs >= 35 * median2 /\ 120 * fs <= 220 * median2
        IN  /\ hr # Some(0)
            /\ hr # None => Val(hr) >= 35 /\ Val(hr) <= 220
            /\ (\A i \in 1..n : pulse_args.samples[i] = pulse_args.samples[1]) => hr = None
            /\ ~estimate => hr = None
            /\ estimate => /\ hr # None
                           /\ 2 * Abs(Val(hr) * median2 - 120 * fs) <= median2

\* an estimate computed from three peaks, that is from two intervals
C22_Witness ==
    /\ pulse_pc = "hr"
    /\ hr # None
    /\ Len(pulse_peaks) = 3

\* C26: build_ppg_cardiogram returns nothing when fewer than 2 peaks are
\* detected; with P >= 2 peaks it returns the filtered samples from peak
\* P-1-min(beats, P-1) up to but not including the last peak, which is the
\* concatenation of the last min(beats, P-1) inter-peak segments in order.
C26_CardiogramLastBeats ==
    pulse_pc = "cardiogram" =>
        IF Len(pulse_peaks) < 2 THEN cardiogram = None
        ELSE LET P == Len(pulse_peaks)
                 kept == IF pulse_args.beats < P - 1 THEN pulse_args.beats ELSE P - 1
                 from == pulse_peaks[P - kept]
                 to == pulse_peaks[P]
             IN  cardiogram = Some([k \in 1..(to - from) |-> pulse_filtered[from + k]])

\* three peaks and one beat asked for: the first inter-peak segment is left out
C26_Witness ==
    /\ pulse_pc = "cardiogram"
    /\ Len(pulse_peaks) = 3
    /\ pulse_args.beats = 1
    /\ cardiogram # None
    /\ Len(Val(cardiogram)) = pulse_peaks[3] - pulse_peaks[2]
    /\ pulse_filtered[pulse_peaks[1] + 1] # pulse_filtered[pulse_peaks[2] + 1]

\* the samples spo2_ratio_of_ratios aligns: the shorter of the two sizes
Spo2Aligned ==
    IF Len(spo2_args.ir) < Len(spo2_args.red) THEN Len(spo2_args.ir) ELSE Len(spo2_args.red)

\* the first failing check of a finished call, "" when every check passes
Spo2FirstFailure ==
    IF Spo2Aligned < 3 * spo2_args.sample_rate_hz THEN "NO_SIGNAL"
    ELSE IF Val(spo2_locals.ir_dc_mean) <= 0 \/ Val(spo2_locals.red_dc_mean) <= 0 THEN "DC_ZERO"
    ELSE IF Val(spo2_locals.ir_ac_amp) <= 0 \/ Val(spo2_locals.red_ac_amp) <= 0 THEN "AC_ZERO"
    ELSE IF 200 * Val(spo2_locals.ir_ac_amp) < Val(spo2_locals.ir_dc_mean)
            \/ 200 * Val(spo2_locals.red_ac_amp) < Val(spo2_locals.red_dc_mean) THEN "PI_LOW"
    ELSE ""

\* C23: for degenerate input spo2_ratio_of_ratios returns a record with
\* ok = false and the one reason of the first failing check, in the order
\* NO_SIGNAL (fewer than 3 s of aligned samples), DC_ZERO, AC_ZERO, PI_NAN,
\* PI_LOW, and no field of the record is NaN; windows of at least 3 s that
\* are all zero return DC_ZERO.
C23_FirstFailingReason ==
    spo2_pc = "done" =>
        /\ Spo2FirstFailure # "" =>
              /\ spo2_result.ok = FALSE
              /\ spo2_result.reason = Spo2FirstFailure
              /\ \A f \in DOMAIN spo2_result \ {"ok", "reason"} : spo2_result[f].den # 0
        /\ (/\ Spo2Aligned >= 3 * spo2_args.sample_rate_hz
            /\ \A i \in 1..Len(spo2_args.ir) : spo2_args.ir[i] = 0
            /\ \A i \in 1..Len(spo2_args.red) : spo2_args.red[i] = 0)
           => spo2_result = [ok |-> FALSE, reason |-> "DC_ZERO"]

\* a window without a pulsatile part next to one without a DC level: both the
\* DC check and the AC check fail, and DC_ZERO is reported
C23_Witness ==
    /\ spo2_pc = "done"
    /\ spo2_result = [ok |-> FALSE, reason |-> "DC_ZERO"]
    /\ spo2_locals.ir_dc_mean = Some(0)
    /\ spo2_locals.red_dc_mean # Some(0)
    /\ \E i \in 1..Len(spo2_args.ir) : spo2_args.ir[i] # 0
    /\ \A i \in 1..Len(spo2_args.red) : spo2_args.red[i] = 1

\* a finished call whose windows passed the NO_SIGNAL, DC_ZERO and AC_ZERO
\* checks, so that both perfusion indices are finite fractions
Spo2HasPerfusion ==
    /\ spo2_pc = "done"
    /\ Spo2Aligned >= 3 * spo2_args.sample_rate_hz
    /\ Val(spo2_locals.ir_dc_mean) > 0 /\ Val(spo2_locals.red_dc_mean) > 0
    /\ Val(spo2_locals.ir_ac_amp) > 0 /\ Val(spo2_locals.red_ac_amp) > 0

\* C24: spo2_ratio_of_ratios fails with PI_LOW exactly when a perfusion
\* index (AC amplitude / DC mean, IR or Red) is below 0.005 = 1/200; with both
\* indices at or above 0.005 the estimate succeeds.
C24_PiLowBelowMinimum ==
    Spo2HasPerfusion =>
        LET below == \/ 200 * Val(spo2_locals.ir_ac_amp) < Val(spo2_locals.ir_dc_mean)
                     \/ 200 * Val(spo2_locals.red_ac_amp) < Val(spo2_locals.red_dc_mean)
        IN  /\ below <=> (~spo2_result.ok /\ spo2_result.reason = "PI_LOW")
            /\ ~below => spo2_result.ok

\* C25: every successful result of spo2_ratio_of_ratios carries
\* ratio = pi_red / pi_ir, pi_ir, pi_red and both the linear and the
\* quadratic SpO2 value, each of the two within [80, 100].
C25_SuccessCarriesBothEstimates ==
    (spo2_pc = "done" /\ spo2_result.ok) =>
        /\ DOMAIN spo2_result = {"ok", "ratio", "pi_ir", "pi_red", "spo2_linear", "spo2_quadratic"}
        /\ spo2_result.ratio.num * Val(spo2_locals.ir_ac_amp) * Val(spo2_locals.red_dc_mean)
               = spo2_result.ratio.den * Val(spo2_locals.red_ac_amp) * Val(spo2_locals.ir_dc_mean)
        /\ \A f \in {"spo2_linear", "spo2_quadratic"} :
               /\ spo2_result[f].num >= 80 * spo2_result[f].den
               /\ spo2_result[f].num <= 100 * spo2_result[f].den

\* a success whose linear value is clipped to 100 (ratio below 0.4) while
\* the quadratic value is strictly inside the range
C25_Witness ==
    /\ spo2_pc = "done"
    /\ spo2_result.ok
    /\ 5 * spo2_result.ratio.num < 2 * spo2_result.ratio.den
    /\ spo2_result.spo2_linear = [num |-> 100, den |-> 1]
    /\ spo2_result.spo2_quadratic.num > 80 * spo2_result.spo2_quadratic.den
    /\ spo2_result.spo2_quadratic.num < 100 * spo2_result.spo2_quadratic.den

\* the channels of a sweep that have data for at least one window
SweepUsable == {sweep_labels[i] : i \in 1..Len(sweep_labels)} \ 
               {l \in {sweep_labels[i] : i \in 1..Len(sweep_labels)} : sweep_samples[l] < NPERSEG}

\* C27: a sweep over the channels skips a channel without data or with too
\* few samples for one window and still produces a result for every other
\* channel, in the artifact sweep and in the band-power sweep alike.
C27_SweepSkipsFailures ==
    sweep_pc \in {"compute_artifact_df", "plot_band_power_diagrams"} =>
        \A l \in SweepUsable : \E i \in 1..Len(sweep_done) : sweep_done[i] = l

\* C28: the labels infer_ppg_mapping returns for ambient, infrared and red
\* are pairwise different whenever they are not None; for the labels
\* ambient, infrared, red the red role is the label red.
C28_DistinctRoles ==
    map_pc = "done" =>
        /\ \A r, q \in {"ambient", "infrared", "red"} :
              (r # q /\ ppg_mapping[r] # None) => ppg_mapping[r] # ppg_mapping[q]
        /\ map_labels = <<Str_ambient, Str_infrared, Str_red>> => ppg_mapping.red = Some(Str_red)

\* C29: for every step_samples >= 1 and every row compute_band_power_timeseries
\* emits, the band powers come from the spectrogram column computed over
\* [start, start + NPERSEG), the window of the row's amplitude_range and
\* line_noise_ratio, and t_sec is the centre of that window.
C29_RowWindowsAligned ==
    bpt_pc = "done" =>
        \A r \in 1..Len(bpt_rows) :
            /\ bpt_rows[r].psd_window = [start |-> bpt_rows[r].start,
                                         stop |-> bpt_rows[r].start + NPERSEG]
            /\ bpt_rows[r].t_sec = bpt_rows[r].start + NPERSEG \div 2

\* the full windows of the call: the starts of range(0, n - NPERSEG + 1, step)
BandWindowStarts ==
    LET n == Len(bpt_args.samples)
        step == IF bpt_args.step_samples = None THEN NPERSEG \div 2
                ELSE Val(bpt_args.step_samples)
    IN  IF n < NPERSEG THEN <<>>
        ELSE [k \in 1..((n - NPERSEG) \div step + 1) |-> (k - 1) * step]

\* the window of loop iteration k is flagged as an artifact
BandWindowFlagged(k) ==
    LET from == BandWindowStarts[k]
        vals == {bpt_args.samples[i] : i \in (from + 1)..(from + NPERSEG)}
        top == CHOOSE x \in vals : \A y \in vals : y <= x
        low == CHOOSE x \in vals : \A y \in vals : x <= y
    IN  \/ bpt_args.amplitude_range_threshold # None
           /\ top - low > Val(bpt_args.amplitude_range_threshold)
        \/ bpt_args.line_noise_ratio_threshold # None
           /\ bpt_ratios[k] > Val(bpt_args.line_noise_ratio_threshold)

\* the rows of the same call made with reject_artifacts = false
BandRowsUnrejected ==
    compute_band_power_timeseries([bpt_args EXCEPT !.reject_artifacts = FALSE], bpt_ratios)

\* C30: with reject_artifacts = true no emitted row has amplitude_artifact or
\* line_noise_artifact true, and the emitted rows are the rows of the
\* unflagged windows as the call emits them with reject_artifacts = false,
\* band powers and t_sec included; with reject_artifacts = false one row is
\* emitted per full window, flagged or not.
C30_RejectDropsFlaggedOnly ==
    bpt_pc = "done" =>
        IF bpt_args.reject_artifacts
        THEN /\ \A r \in 1..Len(bpt_rows) :
                   ~bpt_rows[r].amplitude_artifact /\ ~bpt_rows[r].line_noise_artifact
             /\ Len(BandRowsUnrejected) = Len(BandWindowStarts)
             /\ bpt_rows = Pick(BandRowsUnrejected,
                                {k \in 1..Len(BandWindowStarts) : ~BandWindowFlagged(k)}, 1)
        ELSE /\ Len(bpt_rows) = Len(BandWindowStarts)
             /\ \A k \in 1..Len(bpt_rows) :
                   /\ bpt_rows[k].start = BandWindowStarts[k]
                   /\ (bpt_rows[k].amplitude_artifact \/ bpt_rows[k].line_noise_artifact)
                          <=> BandWindowFlagged(k)

\* a rejected window between two emitted ones: the row after it keeps the
\* spectrogram column of its own loop index
C30_Witness ==
    /\ bpt_pc = "done"
    /\ bpt_args.reject_artifacts
    /\ Len(BandWindowStarts) >= 3
    /\ ~BandWindowFlagged(1)
    /\ BandWindowFlagged(2)
    /\ ~BandWindowFlagged(3)
    /\ Len(bpt_rows) >= 2
    /\ bpt_rows[2].psd_window.start = BandWindowStarts[3]

====
